---------------------------- MODULE Spec2Model ----------------------------
(***************************************************************************)
(* Model of the pairing session manager of myagentwallet                   *)
(* (src/src/utils/walletconnect-real.ts, class RealWalletConnectManager,   *)
(* the currentChain version at lines 641-1312).                            *)
(*                                                                         *)
(* Every async method is cut at its await points: the synchronous prefix   *)
(* of a handler is one action, and each awaited transport or wallet call   *)
(* resolves (or rejects) in a later action, so that other events may       *)
(* arrive in between exactly as the JavaScript event loop allows.          *)
(***************************************************************************)
EXTENDS Naturals, Integers, Sequences, FiniteSets, TLC

(***************************************************************************)
(* Bounds of the model.                                                    *)
(***************************************************************************)
MaxReq == 2
MaxProp == 1
MaxOps == 2
MaxTopics == 2
MaxDisc == 2
MaxChainList == 2
\* generations started on the vanity page
MaxLoops == 2
LoopIds == 1..MaxLoops
\* events delivered to an OpenSeaWalletConnectManager
MaxEvents == 2
EvIds == 1..MaxEvents

ReqIds == 1..MaxReq
PropIds == 1..MaxProp
OpIds == 1..MaxOps
Topics == 1..MaxTopics
DiscIds == 1..MaxDisc

(***************************************************************************)
(* Data.                                                                   *)
(***************************************************************************)
\* private keys handed to connectWithUri; "none" is wallet = null
Keys == {"k1", "k2"}
NoWallet == "none"

\* chain ids of ChainConfig; 0 stands for currentChain = null
\* (`this.currentChain?.id || 1` treats both alike)
ChainIds == {1, 137}

\* An address string: the account it denotes and the letter case it is
\* written in.  form "absent" is a missing (undefined or empty) parameter,
\* form "notString" a truthy parameter that is no string.
AcctOf(k) == IF k = "k1" THEN "a1" ELSE "a2"
AddressOf(k) == [acct |-> AcctOf(k), form |-> "checksum"]
Absent == [acct |-> "-", form |-> "absent"]
NotString == [acct |-> "-", form |-> "notString"]
AddressStrings == [acct : {"a1", "a2"}, form : {"checksum", "lower"}]
Targets == AddressStrings \cup {Absent, NotString}

\* String.prototype.toLowerCase on an address string
ToLowerCase(a) == [a EXCEPT !.form = "lower"]

Methods ==
  { "eth_accounts", "eth_requestAccounts", "personal_sign", "eth_sign",
    "eth_sendTransaction", "eth_signTransaction", "eth_signTypedData",
    "eth_signTypedData_v4", "wallet_getCapabilities", "eth_chainId",
    "net_version", "wallet_switchEthereumChain", "eth_getBalance",
    "eth_getTransactionCount", "wallet_addEthereumChain", "eth_gasPrice",
    "eth_estimateGas", "eth_subscribe" }

SignMethods ==
  { "personal_sign", "eth_sign", "eth_sendTransaction", "eth_signTransaction",
    "eth_signTypedData", "eth_signTypedData_v4" }

\* The parameters of a request that the dispatch reads.  target is the
\* account parameter (personal_sign params[1], eth_sign params[0], the
\* transaction's from, eth_signTypedData params[0], wallet_getCapabilities
\* params[0]); payload is the shape of the other parameter.
Payloads(m) ==
  CASE m = "personal_sign" -> {"plain", "dclHex", "dclText", "missing"}
    [] m \in {"eth_sendTransaction", "eth_signTransaction",
              "eth_signTypedData", "eth_signTypedData_v4",
              "wallet_switchEthereumChain", "wallet_addEthereumChain"}
         -> {"ok", "missing"}
    [] OTHER -> {"ok"}

TargetsOf(m) ==
  CASE m \in {"personal_sign", "eth_sign", "wallet_getCapabilities"}
         -> Targets
    [] m \in {"eth_sendTransaction", "eth_signTransaction",
              "eth_signTypedData", "eth_signTypedData_v4"}
         -> Targets \ {NotString}
    [] OTHER -> {Absent}

RequestEvents ==
  UNION { [method : {m}, topic : Topics, target : TargetsOf(m),
           payload : Payloads(m)] : m \in Methods }

VARIABLES
  signClient,          \* this.signClient # null
  wallet,              \* this.wallet: the key it was made from, or NoWallet
  currentChain,        \* this.currentChain?.id, 0 when null
  sessions,            \* keys of this.sessions
  pendingProposals,    \* keys of this.pendingProposals
  onProposalCallback,  \* this.onProposalCallback is set
  clientSessions,      \* topics of signClient.session.getAll()
  issuedTopics,        \* every topic the transport has ever used
  listenerSets,        \* setupEventListeners executions
  initDirect,          \* a direct initialize() call awaiting SignClient.init
  conn,                \* the connectWithUri call in flight
  reqs,                \* session_request events and their handlers
  respondCalls,        \* signClient.respond calls, per request id
  signCalls,           \* wallet signing calls, per request id
  ops,                 \* approveProposal / rejectProposal invocations
  proposalHandler,     \* handleSessionProposal, per proposal id delivered
  approveCalls,        \* signClient.approve calls, per proposal id
  rejectCalls,         \* signClient.reject calls, per proposal id
  approvedTopics,      \* topics returned by a successful signClient.approve
  proposalParams,      \* event.params of each proposal delivered
  disc,                \* disconnectSession invocations
  disconnectCalls,     \* signClient.disconnect calls, per topic
  closed,              \* topics removed from sessions by disconnectSession,
                       \* session_delete or session_expire
  crypt,               \* an encryptPrivateKey call and the decryptPrivateKey
                       \* call made on its result
  keyCheck,            \* validatePrivateKey and getWalletFromPrivateKey
                       \* called on one input
  consoleLog,          \* sensitive material written by console.log
  openSea,             \* the OpenSeaWalletConnectManager that guards its
                       \* handlers with processingRequest
  openSeaFixed,        \* the OpenSeaWalletConnectManager of
                       \* walletconnect-opensea-fixed.ts
  discAll,             \* the disconnectAll invocation
  worker,              \* the vanity worker handling one start message
  page                 \* the vanity page: its state and generation loops

setupVars == <<signClient, wallet, currentChain, onProposalCallback,
               listenerSets, initDirect, conn>>
reqVars == <<reqs, respondCalls, signCalls>>
nsVars == <<proposalParams>>
propVars == <<pendingProposals, ops, proposalHandler, approveCalls,
              rejectCalls, approvedTopics, issuedTopics, nsVars>>
discVars == <<disc, disconnectCalls, closed>>
keyStoreVars == <<crypt, keyCheck>>
sideVars == <<openSea, openSeaFixed, discAll, worker, page>>
utilVars == <<keyStoreVars, consoleLog, sideVars>>
vars == <<signClient, wallet, currentChain, sessions, pendingProposals,
          onProposalCallback, clientSessions, listenerSets,
          initDirect, conn, reqs, respondCalls, signCalls, ops,
          proposalHandler, approveCalls, rejectCalls, approvedTopics,
          issuedTopics, disc, disconnectCalls, closed, proposalParams,
          crypt, keyCheck, consoleLog, sideVars>>

\* sequences over S of length at most n
SeqsUpTo(S, n) == UNION {[1..k -> S] : k \in 0..n}

\* chain lists (`eip155:<id>` written as the id), method lists, event lists
ChainLists == SeqsUpTo(ChainIds, MaxChainList)
MethodLists == SeqsUpTo({"personal_sign", "eth_sign"}, 1)
EventLists == SeqsUpTo({"chainChanged"}, 1)

\* requiredNamespaces.eip155 / optionalNamespaces.eip155: absent, or an
\* object whose chains may be missing
NoPart == [present |-> FALSE, chainsGiven |-> FALSE, chains |-> <<>>,
           methods |-> <<>>, events |-> <<>>]
RequiredParts ==
  {NoPart} \cup
  [present : {TRUE}, chainsGiven : {TRUE}, chains : ChainLists,
   methods : MethodLists, events : EventLists] \cup
  [present : {TRUE}, chainsGiven : {FALSE}, chains : {<<>>},
   methods : MethodLists, events : EventLists]
OptionalParts ==
  {NoPart} \cup
  [present : {TRUE}, chainsGiven : {TRUE}, chains : ChainLists,
   methods : MethodLists, events : EventLists]

\* event.params of a session_proposal: the eip155 entries, whether either
\* object has keys other than eip155, and whether optionalNamespaces is
\* defined at all
EmptyParams ==
  [required |-> NoPart, requiredOthers |-> FALSE, optionalDefined |-> FALSE,
   optional |-> NoPart, optionalOthers |-> FALSE]
ProposalParams ==
  { p \in [required : RequiredParts, requiredOthers : BOOLEAN,
           optionalDefined : BOOLEAN, optional : OptionalParts,
           optionalOthers : BOOLEAN] :
      ~p.optionalDefined => (p.optional = NoPart /\ ~p.optionalOthers) }

\* a proposal as dapps usually send it
PlainProposal ==
  [EmptyParams EXCEPT
     !.required = [present |-> TRUE, chainsGiven |-> TRUE, chains |-> <<1>>,
                   methods |-> <<"personal_sign">>,
                   events |-> <<"chainChanged">>]]

\* `const namespaces = {}` (line 824); has tells whether the eip155 key is set
EmptyNamespaces ==
  [has |-> FALSE, accounts |-> <<>>, methods |-> <<>>, events |-> <<>>,
   chains |-> <<>>]

NoRequest == [pc |-> "none", method |-> "-", topic |-> 0, target |-> Absent,
              payload |-> "-", key |-> NoWallet, stale |-> FALSE]
NoDisc == [pc |-> "none", topic |-> 0, had |-> FALSE]
NoOp ==
  [kind |-> "-", id |-> 0, pc |-> "none", topic |-> 0, pending |-> FALSE,
   approveFailed |-> FALSE, rejects |-> 0, key |-> NoWallet, chain |-> 0,
   namespaces |-> EmptyNamespaces]
NoConn == [pc |-> "idle", key |-> NoWallet]

(***************************************************************************)
(* WalletManager (src/src/utils/wallet.ts) on a reduced alphabet: octets   *)
(* are the numbers of Bytes, a cipher block has BlockSize octets and a     *)
(* private key has KeyDigits hex digits.                                   *)
(***************************************************************************)
BlockSize == 2
MaxSecretLen == 3
KeyDigits == 2

Bytes == 0..3
Modulus == Cardinality(Bytes)

\* the octet that is not a character by itself (0x80 and above)
HighByte == Modulus - 1

\* characters of a string: those of one octet, and one of two octets
WideChar == Modulus
Chars == (Bytes \ {HighByte}) \cup {WideChar}

Secrets == SeqsUpTo(Chars, MaxSecretLen)
Passwords == {"", "pw1", "pw2"}
PasswordCode(password) ==
  CASE password = "pw1" -> 1 [] password = "pw2" -> 2 [] OTHER -> 0

\* CryptoJS.lib.WordArray.random: the salt (line 56), the iv (line 67)
Salts == 0..1
IVs == [1..BlockSize -> Bytes]

\* CryptoJS.enc.Utf8.parse, applied by AES.encrypt to a string message
RECURSIVE Utf8Parse(_)
Utf8Parse(chars) ==
  IF chars = <<>> THEN <<>>
  ELSE (IF chars[1] = WideChar THEN <<HighByte, HighByte>> ELSE <<chars[1]>>)
         \o Utf8Parse(Tail(chars))

\* CryptoJS.enc.Utf8.stringify (line 107): throws 'Malformed UTF-8 data' on
\* octets that are not an encoding
RECURSIVE Utf8Stringify(_)
Utf8Stringify(bytes) ==
  IF bytes = <<>> THEN [ok |-> TRUE, chars |-> <<>>]
  ELSE IF bytes[1] # HighByte
    THEN LET rest == Utf8Stringify(Tail(bytes))
         IN [ok |-> rest.ok, chars |-> <<bytes[1]>> \o rest.chars]
    ELSE IF Len(bytes) >= 2 /\ bytes[2] = HighByte
      THEN LET rest == Utf8Stringify(Tail(Tail(bytes)))
           IN [ok |-> rest.ok, chars |-> <<WideChar>> \o rest.chars]
      ELSE [ok |-> FALSE, chars |-> <<>>]

\* WordArray.toString() / CryptoJS.enc.Hex.parse: two digits per octet
HexDigits == <<"0", "1", "2", "3", "4", "5", "6", "7", "8", "9",
               "a", "b", "c", "d", "e", "f">>
DigitValue(d) == (CHOOSE i \in 1..16 : HexDigits[i] = d) - 1
RECURSIVE HexStringify(_)
HexStringify(bytes) ==
  IF bytes = <<>> THEN <<>>
  ELSE <<HexDigits[(bytes[1] \div 16) + 1], HexDigits[(bytes[1] % 16) + 1]>>
         \o HexStringify(Tail(bytes))
HexParse(text) ==
  [i \in 1..(Len(text) \div 2) |->
     16 * DigitValue(text[2 * i - 1]) + DigitValue(text[2 * i])]

\* pbkdf2(sha256, password, salt, ...) (lines 61, 93): the key is a function
\* of the password and the salt text, different for different passwords
DeriveKey(password, saltText) ==
  (PasswordCode(password) + HexParse(saltText)[1]) % Modulus

\* CryptoJS.pad.Pkcs7: pad appends n octets of value n; unpad reads n from
\* the last octet and shortens by it without looking at the others, and a
\* length that falls to zero or below reads as no octets
Pad(bytes) ==
  LET n == BlockSize - (Len(bytes) % BlockSize)
  IN bytes \o [i \in 1..n |-> n]
Unpad(bytes) ==
  LET n == bytes[Len(bytes)]
  IN IF Len(bytes) - n <= 0 THEN <<>> ELSE SubSeq(bytes, 1, Len(bytes) - n)

\* bitwise exclusive or of two octets
RECURSIVE Xor(_, _)
Xor(a, b) ==
  IF a = 0 /\ b = 0 THEN 0
  ELSE ((a + b) % 2) + 2 * Xor(a \div 2, b \div 2)

\* the block cipher under key: a permutation of the octets and its inverse
EncryptByte(key, b) == (b + key) % Modulus
DecryptByte(key, b) == (b + Modulus - key) % Modulus

\* CryptoJS.mode.CBC over whole blocks
RECURSIVE CbcEncrypt(_, _, _)
CbcEncrypt(key, iv, plain) ==
  IF plain = <<>> THEN <<>>
  ELSE LET block == [i \in 1..BlockSize |->
                       EncryptByte(key, Xor(plain[i], iv[i]))]
       IN block \o CbcEncrypt(key, block,
                              SubSeq(plain, BlockSize + 1, Len(plain)))

EcbDecrypt(key, iv, cipher) ==
  [i \in 1..Len(cipher) |-> DecryptByte(key, cipher[i])]

RECURSIVE CbcDecrypt(_, _, _)
CbcDecrypt(key, iv, cipher) ==
  IF cipher = <<>> THEN <<>>
  ELSE LET block == SubSeq(cipher, 1, BlockSize)
       IN [i \in 1..BlockSize |-> Xor(DecryptByte(key, block[i]), iv[i])]
            \o CbcDecrypt(key, block,
                          SubSeq(cipher, BlockSize + 1, Len(cipher)))

\* JSON.stringify({salt, iv, encrypted}) (lines 75-81); encrypted is the
\* ciphertext in the cipher's text format, read back by AES.decrypt
NoBlob == [salt |-> <<>>, iv |-> <<>>, encrypted |-> <<>>]

\* encryptPrivateKey (lines 54-86) with the two random values it draws
encryptPrivateKey(privateKey, password, salt, iv) ==
  LET saltText == HexStringify(<<salt>>)
      key == DeriveKey(password, saltText)
  IN [salt |-> saltText,
      iv |-> HexStringify(iv),
      encrypted |-> CbcEncrypt(key, iv, Pad(Utf8Parse(privateKey)))]

\* what a call returns or that it threw
NoOutcome == [threw |-> FALSE, value |-> <<>>]
Returned(value) == [threw |-> FALSE, value |-> value]
Threw == [threw |-> TRUE, value |-> <<>>]

\* decryptPrivateKey (lines 88-112): the catch turns the Utf8 error into
\* 'Failed to decrypt private key'
decryptPrivateKey(encryptedData, password) ==
  LET key == DeriveKey(password, encryptedData.salt)
      iv == HexParse(encryptedData.iv)
      decrypted == Unpad(CbcDecrypt(key, iv, encryptedData.encrypted))
      text == Utf8Stringify(decrypted)
  IN IF text.ok THEN Returned(text.chars) ELSE Threw

\* arguments of validatePrivateKey / getWalletFromPrivateKey: strings over
\* a few characters, and a value that is not a string
InputChars == {"0", "1", "f", "g", "x"}
KeyLength == 2 + KeyDigits
NotAString == [isString |-> FALSE, chars |-> <<>>]
KeyInputs ==
  {NotAString} \cup
  {[isString |-> TRUE, chars |-> s] : s \in SeqsUpTo(InputChars, KeyLength + 1)}

\* privateKey.startsWith('0x') and the prefixing of lines 27-29, 43-45
StartsWith0x(s) == Len(s) >= 2 /\ s[1] = "0" /\ s[2] = "x"
WithPrefix(s) == IF StartsWith0x(s) THEN s ELSE <<"0", "x">> \o s

\* `new ethers.Wallet(privateKey)` does not throw: 0x and KeyDigits hex
\* digits that are a scalar of the curve (not zero, below the group order,
\* which the all-f key is not)
WalletAccepts(s) ==
  /\ StartsWith0x(s)
  /\ Len(s) = 2 + KeyDigits
  /\ \A i \in 3..Len(s) : s[i] \in {"0", "1", "f"}
  /\ \E i \in 3..Len(s) : s[i] # "0"
  /\ \E i \in 3..Len(s) : s[i] # "f"

validatePrivateKeyLengthOnly(input) ==
  IF ~input.isString THEN FALSE
  ELSE Len(WithPrefix(input.chars)) = KeyLength

\* validatePrivateKey (lines 25-40); a TypeError on a non-string is caught
validatePrivateKey(input) ==
  IF ~input.isString THEN FALSE
  ELSE LET privateKey == WithPrefix(input.chars)
       IN IF Len(privateKey) # KeyLength THEN FALSE
          ELSE WalletAccepts(privateKey)

\* getWalletFromPrivateKey (lines 42-52): TRUE when it returns
getWalletFromPrivateKey(input) ==
  /\ input.isString
  /\ WalletAccepts(WithPrefix(input.chars))

\* The state after construction (fields at lines 643-648); the transport's
\* persisted session store may hold sessions of an earlier page load.
\* Topics are opaque to the manager: the transport hands them out in order.
ManagerInit ==
  /\ signClient = FALSE
  /\ wallet = NoWallet
  /\ currentChain = 0
  /\ sessions = {}
  /\ pendingProposals = {}
  /\ onProposalCallback = FALSE
  /\ clientSessions \in {1..n : n \in 0..MaxTopics}
  /\ issuedTopics = clientSessions
  /\ listenerSets = 0
  /\ initDirect = "idle"
  /\ conn = NoConn
  /\ reqs = [r \in ReqIds |-> NoRequest]
  /\ respondCalls = [r \in ReqIds |-> <<>>]
  /\ signCalls = [r \in ReqIds |-> <<>>]
  /\ ops = [o \in OpIds |-> NoOp]
  /\ proposalHandler = [p \in PropIds |-> "none"]
  /\ approveCalls = [p \in PropIds |-> 0]
  /\ rejectCalls = [p \in PropIds |-> 0]
  /\ approvedTopics = {}
  /\ proposalParams = [p \in PropIds |-> EmptyParams]
  /\ disc = [d \in DiscIds |-> NoDisc]
  /\ disconnectCalls = [t \in Topics |-> 0]
  /\ closed = {}
  /\ consoleLog = {}

\* no WalletManager call has been made
NoCrypt ==
  [pc |-> "none", secret |-> <<>>, password |-> "-", blob |-> NoBlob,
   tried |-> "-", outcome |-> NoOutcome]
NoKeyCheck == [input |-> NotAString, validated |-> "-", imported |-> "-"]

\* the OpenSeaWalletConnectManager after construction: no client, no wallet,
\* no sessions, processingRequest false; no event has been delivered
NoRun == [kind |-> "none", method |-> "-", pc |-> "none", guarded |-> FALSE]
NoOpenSea ==
  [signClient |-> FALSE, wallet |-> FALSE, processingRequest |-> FALSE,
   sessions |-> {}, runs |-> [e \in EvIds |-> NoRun],
   approveCalls |-> [e \in EvIds |-> 0],
   rejectCalls |-> [e \in EvIds |-> 0],
   respondCalls |-> [e \in EvIds |-> <<>>]]

\* the manager of walletconnect-opensea-fixed.ts after construction
NoOpenSeaFixed ==
  [web3wallet |-> FALSE, wallet |-> FALSE, sessions |-> {},
   runs |-> [e \in EvIds |->
               [kind |-> "none", method |-> "-", pc |-> "none",
                dispatchThrew |-> FALSE]],
   approveCalls |-> [e \in EvIds |-> 0],
   rejectCalls |-> [e \in EvIds |-> 0],
   respondCalls |-> [e \in EvIds |-> <<>>]]

\* disconnectAll has not been called: atCall are the keys of the map when it
\* is called, visited the keys its iterator has produced, calls the
\* signClient.disconnect calls it has made
NoDiscAll ==
  [pc |-> "none", atCall |-> {}, visited |-> {}, topic |-> 0,
   calls |-> [t \in Topics |-> 0], before |-> [t \in Topics |-> 0]]

\* the vanity worker before a start message
NoWorker ==
  [pc |-> "idle", pattern |-> <<>>, patternType |-> "-", maxAttempts |-> 0,
   crypto |-> TRUE, attempts |-> 0, posted |-> <<>>, firstMatch |-> 0]

\* the vanity page after mounting: nothing is generating, no result, no
\* error, no generation loop has been started
NoLoop == [pc |-> "none", attempts |-> 0, outcome |-> "-", stopped |-> FALSE]
NoPage ==
  [isGenerating |-> FALSE, result |-> 0, error |-> FALSE,
   loops |-> [l \in LoopIds |-> NoLoop]]

Init ==
  /\ ManagerInit
  /\ crypt = NoCrypt
  /\ keyCheck = NoKeyCheck
  /\ openSea = NoOpenSea
  /\ openSeaFixed = NoOpenSeaFixed
  /\ discAll = NoDiscAll
  /\ worker = NoWorker
  /\ page = NoPage


(***************************************************************************)
(* Setup: setOnProposalCallback, initialize, connectWithUri.               *)
(***************************************************************************)
SetOnProposalCallback ==
  /\ onProposalCallback' = TRUE
  /\ UNCHANGED <<signClient, wallet, currentChain, sessions, clientSessions,
                 listenerSets, initDirect, conn>>
  /\ UNCHANGED <<reqVars, propVars, discVars, utilVars>>

\* initialize() up to `await SignClient.init(...)`: a no-op when signClient
\* is already set
InitializeCall ==
  /\ initDirect = "idle"
  /\ ~signClient
  /\ initDirect' = "awaitInit"
  /\ UNCHANGED <<signClient, wallet, currentChain, sessions, clientSessions,
                 onProposalCallback, listenerSets, conn>>
  /\ UNCHANGED <<reqVars, propVars, discVars, utilVars>>

\* `activeSessions.forEach(session => this.sessions.set(...))`; getAll()
\* throwing is caught and restores nothing
RestoredSessions(getAllThrows) ==
  IF getAllThrows THEN sessions ELSE sessions \cup clientSessions

\* the continuation of initialize() after SignClient.init resolved:
\* signClient is assigned, sessions are restored, listeners registered
AfterInit(getAllThrows) ==
  /\ signClient' = TRUE
  /\ sessions' = RestoredSessions(getAllThrows)
  /\ listenerSets' = listenerSets + 1

InitializeResolve(ok, getAllThrows) ==
  /\ initDirect = "awaitInit"
  /\ initDirect' = "idle"
  /\ IF ok
       THEN AfterInit(getAllThrows)
       ELSE UNCHANGED <<signClient, sessions, listenerSets>>
  /\ UNCHANGED <<wallet, currentChain, clientSessions, onProposalCallback, conn>>
  /\ UNCHANGED <<reqVars, propVars, discVars, utilVars>>

\* what console.log receives in connectWithUri: the pairing URI, which
\* carries the pairing's symmetric key (line 1223), and the first ten
\* characters of the private key (line 1239)
LoggedUri == [kind |-> "symKey", of |-> "uri"]
LoggedKeyPrefix(key) == [kind |-> "privateKeyPrefix", of |-> key]

ConnectWithUriAddingSession(key, chain) ==
  /\ conn.pc = "idle"
  /\ currentChain' = chain
  /\ \E t \in Topics : sessions' = sessions \cup {t}
  /\ IF signClient
       THEN /\ wallet' = key
            /\ consoleLog' = consoleLog \cup {LoggedUri, LoggedKeyPrefix(key)}
            /\ UNCHANGED conn
       ELSE /\ conn' = [pc |-> "awaitInit", key |-> key]
            /\ consoleLog' = consoleLog \cup {LoggedUri}
            /\ UNCHANGED wallet
  /\ UNCHANGED <<signClient, clientSessions, onProposalCallback,
                 listenerSets, initDirect>>
  /\ UNCHANGED <<reqVars, propVars, discVars, keyStoreVars, sideVars>>

\* connectWithUri(uri, privateKey, chainConfig) up to its first await:
\* `await this.initialize()` when signClient is null, else the wallet is
\* made and `await this.signClient.pair({uri})` is reached, after which
\* nothing but logging follows
ConnectWithUri(key, chain) ==
  /\ conn.pc = "idle"
  /\ currentChain' = chain
  /\ IF signClient
       THEN /\ wallet' = key
            /\ consoleLog' = consoleLog \cup {LoggedUri, LoggedKeyPrefix(key)}
            /\ UNCHANGED conn
       ELSE /\ conn' = [pc |-> "awaitInit", key |-> key]
            /\ consoleLog' = consoleLog \cup {LoggedUri}
            /\ UNCHANGED wallet
  /\ UNCHANGED <<signClient, sessions, clientSessions, onProposalCallback,
                 listenerSets, initDirect>>
  /\ UNCHANGED <<reqVars, propVars, discVars, keyStoreVars, sideVars>>

\* connectWithUri resumes after its initialize() call settled
ConnectResume(ok, getAllThrows) ==
  /\ conn.pc = "awaitInit"
  /\ conn' = NoConn
  /\ IF ok
       THEN /\ AfterInit(getAllThrows)
            /\ wallet' = conn.key
            /\ consoleLog' = consoleLog \cup {LoggedKeyPrefix(conn.key)}
       ELSE UNCHANGED <<signClient, sessions, listenerSets, wallet,
                        consoleLog>>
  /\ UNCHANGED <<currentChain, clientSessions, onProposalCallback,
                 initDirect>>
  /\ UNCHANGED <<reqVars, propVars, discVars, keyStoreVars, sideVars>>

(***************************************************************************)
(* handleSessionRequest (lines 958-1219).                                  *)
(***************************************************************************)
CacheFillUnconditional(topic, getAllThrows) == sessions \cup {topic}

\* the session lookup at lines 971-992: a topic missing from the cache is
\* filled in from the transport's store when it is there
CacheFill(topic, getAllThrows) ==
  IF topic \notin sessions /\ ~getAllThrows /\ topic \in clientSessions
    THEN sessions \cup {topic}
    ELSE sessions

AddressMismatchUnchecked(target) == FALSE

\* `signerAddress && signerAddress.toLowerCase() !==
\*  this.wallet.address.toLowerCase()` (lines 1016, 1079); evaluating it
\* throws a TypeError when the parameter is truthy and no string
AddressCheckThrows(target) == target.form = "notString"
AddressMismatch(target) ==
  /\ target.form # "absent"
  /\ ToLowerCase(target) # ToLowerCase(AddressOf(wallet))

\* `message.includes('446563656e7472616c616e64') || ...` (line 1021)
IsDecentraland(payload) == payload \in {"dclHex", "dclText"}

Result(kind, addr, text) == [kind |-> kind, addr |-> addr, text |-> text]

\* Number.prototype.toString(radix) for a positive integer, as a sequence
\* of digit characters
RECURSIVE ToDigits(_, _)
ToDigits(n, radix) ==
  LET d == n % radix
      c == SubSeq(<<"0", "1", "2", "3", "4", "5", "6", "7", "8", "9",
                    "a", "b", "c", "d", "e", "f">>, d + 1, d + 1)
  IN IF n < radix THEN c ELSE ToDigits(n \div radix, radix) \o c

\* `this.currentChain?.id || 1`
SelectedChainId == IF currentChain = 0 THEN 1 ELSE currentChain

\* The switch at lines 996-1171, up to the first await of each case:
\* what the case does with the request (answer with a result, throw, or
\* call the wallet).
Dispatch(e) ==
  CASE e.method \in {"eth_accounts", "eth_requestAccounts"} ->
         [act |-> "result",
          result |-> Result("accounts", AddressOf(wallet), <<>>)]
    [] e.method = "personal_sign" ->
         IF AddressCheckThrows(e.target) \/ AddressMismatch(e.target)
              \/ e.payload = "missing"
           THEN [act |-> "throw"]
           ELSE IF e.payload = "dclHex"
             THEN [act |-> "sign", op |-> "signMessage", arg |-> "decoded",
                   pc |-> "awaitSignDecoded"]
             ELSE [act |-> "sign", op |-> "signMessage", arg |-> "raw",
                   pc |-> "awaitSign"]
    [] e.method = "eth_sign" ->
         IF AddressCheckThrows(e.target) \/ AddressMismatch(e.target)
           THEN [act |-> "throw"]
           ELSE [act |-> "sign", op |-> "signMessage", arg |-> "raw",
                 pc |-> "awaitSign"]
    [] e.method \in {"eth_sendTransaction", "eth_signTransaction"} ->
         [act |-> "sign", op |-> "signTransaction", arg |-> "raw",
          pc |-> "awaitSign"]
    [] e.method \in {"eth_signTypedData", "eth_signTypedData_v4"} ->
         IF e.payload = "missing"
           THEN [act |-> "throw"]
           ELSE [act |-> "sign", op |-> "signTypedData", arg |-> "raw",
                 pc |-> "awaitSign"]
    [] e.method = "wallet_getCapabilities" ->
         IF e.target.form \in {"absent", "notString"}
           THEN [act |-> "throw"]
           ELSE [act |-> "result",
                 result |-> Result("capabilities", ToLowerCase(e.target), <<>>)]
    [] e.method = "eth_chainId" ->
         [act |-> "result",
          result |-> Result("string", Absent,
                            <<"0", "x">> \o ToDigits(SelectedChainId, 16))]
    [] e.method = "net_version" ->
         [act |-> "result",
          result |-> Result("string", Absent, ToDigits(SelectedChainId, 10))]
    [] e.method = "wallet_switchEthereumChain" ->
         IF e.payload = "missing"
           THEN [act |-> "throw"]
           ELSE [act |-> "result", result |-> Result("null", Absent, <<>>)]
    [] e.method \in {"eth_getBalance", "eth_getTransactionCount"} ->
         [act |-> "result", result |-> Result("string", Absent, <<"0", "x", "0">>)]
    [] e.method = "wallet_addEthereumChain" ->
         [act |-> "result", result |-> Result("null", Absent, <<>>)]
    [] e.method = "eth_gasPrice" ->
         [act |-> "result",
          result |-> Result("string", Absent,
                            <<"0", "x", "9", "1", "8", "4", "e", "7", "2",
                              "a", "0", "0", "0">>)]
    [] e.method = "eth_estimateGas" ->
         [act |-> "result",
          result |-> Result("string", Absent,
                            <<"0", "x", "5", "2", "0", "8">>)]
    [] OTHER ->
         [act |-> "result", result |-> Result("null", Absent, <<>>)]


\* the response of the outer catch (lines 1206-1216)
MethodNotFound == Result("error", Absent, <<"-32601", "Method not found">>)

RespondCall(r, e, type, result) ==
  [id |-> r, topic |-> e.topic, type |-> type, result |-> result,
   status |-> "pending"]

SignCall(d) == [op |-> d.op, arg |-> d.arg, key |-> wallet, status |-> "pending"]

\* The synchronous prefix of handleSessionRequest for event ev with id r:
\* the guard, the session lookup, the dispatch, and the first call awaited.
\* The handler's record keeps the wallet it read (key) and whether the
\* topic had been removed from sessions before the request came (stale).
HandleSessionRequest(r, ev, getAllThrows) ==
  LET e == ev @@ [key |-> wallet, stale |-> ev.topic \in closed] IN
  IF ~signClient \/ wallet = NoWallet
    THEN \* line 961 throws; the outer catch answers when signClient is set
         /\ UNCHANGED <<sessions, signCalls>>
         /\ IF signClient
              THEN /\ respondCalls' = [respondCalls EXCEPT ![r] =
                        Append(@, RespondCall(r, e, "error", MethodNotFound))]
                   /\ reqs' = [reqs EXCEPT ![r] = e @@ [pc |-> "awaitErrRespond"]]
              ELSE /\ UNCHANGED respondCalls
                   /\ reqs' = [reqs EXCEPT ![r] = e @@ [pc |-> "done"]]
    ELSE /\ sessions' = CacheFill(e.topic, getAllThrows)
         /\ LET d == Dispatch(e) IN
              CASE d.act = "result" ->
                     /\ respondCalls' = [respondCalls EXCEPT ![r] =
                          Append(@, RespondCall(r, e, "result", d.result))]
                     /\ reqs' = [reqs EXCEPT ![r] = e @@ [pc |-> "awaitRespond"]]
                     /\ UNCHANGED signCalls
                [] d.act = "throw" ->
                     /\ respondCalls' = [respondCalls EXCEPT ![r] =
                          Append(@, RespondCall(r, e, "error", MethodNotFound))]
                     /\ reqs' = [reqs EXCEPT ![r] = e @@ [pc |-> "awaitErrRespond"]]
                     /\ UNCHANGED signCalls
                [] d.act = "sign" ->
                     /\ signCalls' = [signCalls EXCEPT ![r] = Append(@, SignCall(d))]
                     /\ reqs' = [reqs EXCEPT ![r] = e @@ [pc |-> d.pc]]
                     /\ UNCHANGED respondCalls

SessionRequestEventSwitchingChain(r, e) ==
  /\ listenerSets > 0
  /\ reqs[r].pc = "none"
  /\ \A q \in ReqIds : q < r => reqs[q].pc # "none"
  /\ \E getAllThrows \in BOOLEAN : HandleSessionRequest(r, e, getAllThrows)
  /\ currentChain' = IF e.method = "wallet_switchEthereumChain"
                       /\ e.payload = "ok" /\ wallet # NoWallet
                      THEN 137 ELSE currentChain
  /\ UNCHANGED <<signClient, wallet, onProposalCallback, listenerSets,
                 initDirect, conn>>
  /\ UNCHANGED <<clientSessions, propVars, discVars, utilVars>>

\* a session_request event is delivered to the listener registered by
\* setupEventListeners (lines 749-752); ids are handed out in order
SessionRequestEvent(r, e) ==
  /\ listenerSets > 0
  /\ reqs[r].pc = "none"
  /\ \A q \in ReqIds : q < r => reqs[q].pc # "none"
  /\ \E getAllThrows \in BOOLEAN : HandleSessionRequest(r, e, getAllThrows)
  /\ UNCHANGED <<setupVars, clientSessions, propVars, discVars, utilVars>>

\* ethers' Wallet.signTransaction rejects a transaction whose from is not
\* the wallet's own address, and a missing transaction object
SignMustReject(r) ==
  LET c == signCalls[r][Len(signCalls[r])] IN
  /\ c.op = "signTransaction"
  /\ \/ reqs[r].payload = "missing"
     \/ /\ reqs[r].target.form # "absent"
        /\ reqs[r].target.acct # AcctOf(c.key)

SignResult(c) ==
  Result(IF c.op = "signTransaction" THEN "signedTransaction" ELSE "signature",
         AddressOf(c.key), <<c.arg>>)

SetLast(seq, status) == [seq EXCEPT ![Len(seq)].status = status]

\* the awaited wallet call of request r settles
SignResolve(r, ok) ==
  /\ reqs[r].pc \in {"awaitSign", "awaitSignDecoded"}
  /\ ok => ~SignMustReject(r)
  /\ LET last == signCalls[r][Len(signCalls[r])]
         settled == SetLast(signCalls[r], IF ok THEN "ok" ELSE "failed")
     IN
     IF ok
       THEN \* `result = await ...`, then the respond at line 1174
            /\ signCalls' = [signCalls EXCEPT ![r] = settled]
            /\ respondCalls' = [respondCalls EXCEPT ![r] =
                 Append(@, RespondCall(r, reqs[r], "result", SignResult(last)))]
            /\ reqs' = [reqs EXCEPT ![r].pc = "awaitRespond"]
       ELSE IF reqs[r].pc = "awaitSignDecoded"
         THEN \* the catch at line 1047 signs the undecoded message
              /\ signCalls' = [signCalls EXCEPT ![r] =
                   Append(settled, [op |-> "signMessage", arg |-> "raw",
                                    key |-> wallet, status |-> "pending"])]
              /\ reqs' = [reqs EXCEPT ![r].pc = "awaitSign"]
              /\ UNCHANGED respondCalls
         ELSE \* the outer catch answers with an error
              /\ signCalls' = [signCalls EXCEPT ![r] = settled]
              /\ respondCalls' = [respondCalls EXCEPT ![r] =
                   Append(@, RespondCall(r, reqs[r], "error", MethodNotFound))]
              /\ reqs' = [reqs EXCEPT ![r].pc = "awaitErrRespond"]
  /\ UNCHANGED <<setupVars, sessions, clientSessions, propVars, discVars, utilVars>>

AfterRespondFailureRethrown(r) ==
  /\ reqs' = [reqs EXCEPT ![r].pc = "awaitErrRespond"]
  /\ respondCalls' = [respondCalls EXCEPT ![r] =
       Append(SetLast(@, "failed"),
              RespondCall(r, reqs[r], "error", MethodNotFound))]

\* What follows a rejected `await this.signClient.respond(...)` of the
\* result (lines 1183-1201): the fallback is commented out, nothing is sent
AfterRespondFailure(r) ==
  /\ reqs' = [reqs EXCEPT ![r].pc = "done"]
  /\ respondCalls' = [respondCalls EXCEPT ![r] = SetLast(@, "failed")]

\* the awaited signClient.respond of request r settles
RespondResolve(r, ok) ==
  /\ reqs[r].pc \in {"awaitRespond", "awaitErrRespond"}
  /\ IF ok
       THEN /\ reqs' = [reqs EXCEPT ![r].pc = "done"]
            /\ respondCalls' = [respondCalls EXCEPT ![r] = SetLast(@, "ok")]
       ELSE IF reqs[r].pc = "awaitRespond"
         THEN AfterRespondFailure(r)
         ELSE \* the respond of the outer catch is not guarded: the handler's
              \* promise rejects
              /\ reqs' = [reqs EXCEPT ![r].pc = "rejected"]
              /\ respondCalls' = [respondCalls EXCEPT ![r] = SetLast(@, "failed")]
  /\ UNCHANGED signCalls
  /\ UNCHANGED <<setupVars, sessions, clientSessions, propVars, discVars, utilVars>>

(***************************************************************************)
(* Session events of the transport.                                        *)
(***************************************************************************)
\* session_delete / session_expire listeners (lines 755-758, 771-774):
\* `this.sessions.delete(event.topic)`.  The transport emits either event
\* for a session of its store, after it has dropped that session from it.
SessionClosedByTransport(t) ==
  /\ t \in clientSessions
  /\ clientSessions' = clientSessions \ {t}
  /\ sessions' = sessions \ {t}
  /\ closed' = IF t \in sessions THEN closed \cup {t} ELSE closed
  /\ UNCHANGED <<disc, disconnectCalls>>
  /\ UNCHANGED <<setupVars, reqVars, propVars, utilVars>>

\* a session_delete event reaches its listener (lines 755-758)
SessionDeleteEvent(t) ==
  /\ listenerSets > 0
  /\ SessionClosedByTransport(t)

\* a session_expire event reaches its listener (lines 771-774)
SessionExpireEvent(t) ==
  /\ listenerSets > 0
  /\ SessionClosedByTransport(t)

(***************************************************************************)
(* disconnectSession (lines 1286-1300).                                    *)
(***************************************************************************)
\* the slot of the next disconnectSession invocation
NextDisc(d) ==
  /\ disc[d].pc = "none"
  /\ \A q \in DiscIds : q < d => disc[q].pc # "none"

DisconnectSessionUnguarded(d, t) ==
  /\ NextDisc(d)
  /\ signClient
  /\ disc' = [disc EXCEPT ![d] =
       [pc |-> "awaitDisconnect", topic |-> t, had |-> t \in sessions]]
  /\ disconnectCalls' = [disconnectCalls EXCEPT ![t] = @ + 1]
  /\ UNCHANGED <<closed, sessions, clientSessions>>
  /\ UNCHANGED <<setupVars, reqVars, propVars, utilVars>>

\* disconnectSession(topic) up to `await this.signClient.disconnect(...)`;
\* had records whether the topic was in sessions at the call
DisconnectSession(d, t) ==
  /\ NextDisc(d)
  /\ IF signClient /\ t \in sessions
       THEN /\ disc' = [disc EXCEPT ![d] =
                 [pc |-> "awaitDisconnect", topic |-> t, had |-> TRUE]]
            /\ disconnectCalls' = [disconnectCalls EXCEPT ![t] = @ + 1]
       ELSE /\ disc' = [disc EXCEPT ![d] =
                 [pc |-> "returned", topic |-> t, had |-> t \in sessions]]
            /\ UNCHANGED disconnectCalls
  /\ UNCHANGED <<closed, sessions, clientSessions>>
  /\ UNCHANGED <<setupVars, reqVars, propVars, utilVars>>

\* the awaited signClient.disconnect settles: on success the transport has
\* dropped the session and line 1293 deletes it from the map; on failure
\* the error is rethrown (lines 1296-1299) and the map keeps the entry
DisconnectResolve(d, ok) ==
  /\ disc[d].pc = "awaitDisconnect"
  /\ LET t == disc[d].topic IN
       IF ok
         THEN /\ clientSessions' = clientSessions \ {t}
              /\ sessions' = sessions \ {t}
              /\ closed' = IF t \in sessions THEN closed \cup {t} ELSE closed
              /\ disc' = [disc EXCEPT ![d].pc = "returned"]
         ELSE /\ disc' = [disc EXCEPT ![d].pc = "threw"]
              /\ UNCHANGED <<clientSessions, sessions, closed>>
  /\ UNCHANGED disconnectCalls
  /\ UNCHANGED <<setupVars, reqVars, propVars, utilVars>>

NextRequests ==
  \/ InitializeCall
  \/ \E ok, g \in BOOLEAN : InitializeResolve(ok, g)
  \/ \E k \in Keys, c \in ChainIds : ConnectWithUri(k, c)
  \/ \E ok, g \in BOOLEAN : ConnectResume(ok, g)
  \/ \E r \in ReqIds, e \in RequestEvents :
       r = 1 /\ SessionRequestEvent(r, e)
  \/ \E r \in ReqIds, ok \in BOOLEAN : SignResolve(r, ok)
  \/ \E r \in ReqIds, ok \in BOOLEAN : RespondResolve(r, ok)
  \/ \E t \in Topics : SessionDeleteEvent(t)

SpecRequests == Init /\ [][NextRequests]_vars


(***************************************************************************)
(* Claims about handleSessionRequest.                                      *)
(***************************************************************************)
Finished(r) == reqs[r].pc \in {"done", "rejected"}

Answered(r) ==
  \E i \in 1..Len(respondCalls[r]) :
    /\ respondCalls[r][i].status = "ok"
    /\ respondCalls[r][i].id = r
    /\ respondCalls[r][i].topic = reqs[r].topic

\* C1: every session_request event that handleSessionRequest has finished
\* handling has at least one successfully issued signClient.respond call
\* carrying the event's id and topic; no request is left unanswered.
C1_NoRequestUnanswered == \A r \in ReqIds : Finished(r) => Answered(r)

\* C2: for every request id handleSessionRequest makes at most one
\* signClient.respond call, whether the dispatch or the respond fails.
C2_AtMostOneRespond == \A r \in ReqIds : Len(respondCalls[r]) <= 1

\* C2 witness: a handler has finished after its respond of the result was
\* rejected by the transport
C2_Witness ==
  \E r \in ReqIds :
    /\ reqs[r].pc = "done"
    /\ Len(respondCalls[r]) = 1
    /\ respondCalls[r][1].type = "result"
    /\ respondCalls[r][1].status = "failed"

\* the request names a target address that is present and is not, ignoring
\* letter case, the address of the wallet the handler read
TargetDiffers(r) ==
  /\ reqs[r].pc # "none"
  /\ reqs[r].key # NoWallet
  /\ reqs[r].target \in AddressStrings
  /\ reqs[r].target.acct # AcctOf(reqs[r].key)

\* C3: a personal_sign or eth_sign request whose target address is present
\* and differs, ignoring letter case, from the wallet's address never
\* reaches wallet.signMessage; the one response issued for it is an error.
C3_MismatchNeverSigned ==
  \A r \in ReqIds :
    (reqs[r].method \in {"personal_sign", "eth_sign"} /\ TargetDiffers(r))
      => /\ signCalls[r] = <<>>
         /\ Len(respondCalls[r]) = 1
         /\ respondCalls[r][1].type = "error"

\* C3 witness: a personal_sign for another account was answered with an error
C3_Witness ==
  \E r \in ReqIds :
    /\ reqs[r].method = "personal_sign"
    /\ TargetDiffers(r)
    /\ reqs[r].pc = "done"
    /\ respondCalls[r][1].type = "error"
    /\ respondCalls[r][1].status = "ok"

\* C4: every request for which the wallet produced a signature, and which
\* names a target account, names the wallet's own account: no signature is
\* made for an account that was not found equal to the wallet address.
C4_SignedOnlyForVerifiedAccount ==
  \A r \in ReqIds :
    ( /\ \E i \in 1..Len(signCalls[r]) : signCalls[r][i].status = "ok"
      /\ reqs[r].target.form # "absent" )
      => /\ reqs[r].target \in AddressStrings
         /\ reqs[r].target.acct = AcctOf(reqs[r].key)


(***************************************************************************)
(* The namespaces of a proposal and of its approval                        *)
(* (processSessionProposal, lines 820-914).                                *)
(***************************************************************************)
\* Array.prototype.includes
Includes(seq, x) == \E i \in 1..Len(seq) : seq[i] = x

\* `[...new Set(seq)]`: the first occurrence of each element, in order
RECURSIVE Dedup(_)
Dedup(seq) ==
  IF seq = <<>> THEN <<>>
  ELSE LET front == Dedup(SubSeq(seq, 1, Len(seq) - 1))
           last == seq[Len(seq)]
       IN IF Includes(front, last) THEN front ELSE Append(front, last)

\* `${chain}:${this.wallet.address}`
Account(chain) == [chain |-> chain, addr |-> AddressOf(wallet)]

\* `chains.map(chain => ...)`
AccountsFor(chains) == [i \in 1..Len(chains) |-> Account(chains[i])]

\* the default method lists of lines 881-899 and 910
OpenSeaMethods ==
  << "eth_sendTransaction", "eth_signTransaction", "eth_sign",
     "personal_sign", "eth_signTypedData", "eth_signTypedData_v4",
     "eth_accounts", "eth_requestAccounts", "eth_chainId",
     "wallet_switchEthereumChain", "wallet_addEthereumChain",
     "eth_getBalance", "eth_getTransactionCount", "eth_gasPrice",
     "eth_estimateGas", "net_version", "wallet_getCapabilities" >>
FallbackMethods ==
  << "eth_sendTransaction", "personal_sign", "eth_sign", "eth_signTypedData",
     "eth_signTypedData_v4" >>
DefaultEvents == << "chainChanged", "accountsChanged" >>

FromRequiredSelectedChainOnly(p) ==
  IF p.required.present
    THEN [has |-> TRUE, accounts |-> << Account(SelectedChainId) >>,
          methods |-> p.required.methods, events |-> p.required.events,
          chains |-> << SelectedChainId >>]
    ELSE EmptyNamespaces

\* lines 827-841: the required eip155 entry
FromRequired(p) ==
  IF p.required.present
    THEN LET chains == IF p.required.chainsGiven
                         THEN p.required.chains
                         ELSE << SelectedChainId >>
         IN [has |-> TRUE, accounts |-> AccountsFor(chains),
             methods |-> p.required.methods, events |-> p.required.events,
             chains |-> chains]
    ELSE EmptyNamespaces

\* lines 844-873: the optional eip155 entry
WithOptional(ns, p) ==
  IF ~(p.optionalDefined /\ p.optional.present) THEN ns
  ELSE LET optionalChains == p.optional.chains IN
    IF ~ns.has
      THEN [has |-> TRUE,
            accounts |-> IF Len(optionalChains) > 0
                           THEN AccountsFor(optionalChains)
                           ELSE << Account(SelectedChainId) >>,
            methods |-> p.optional.methods,
            events |-> p.optional.events,
            chains |-> IF Len(optionalChains) > 0
                         THEN optionalChains
                         ELSE << SelectedChainId >>]
      ELSE LET additionalAccounts ==
                 AccountsFor(SelectSeq(optionalChains,
                   LAMBDA c : ~Includes(ns.accounts, Account(c))))
           IN IF Len(additionalAccounts) > 0
                THEN [has |-> TRUE,
                      accounts |-> ns.accounts \o additionalAccounts,
                      methods |-> Dedup(ns.methods \o p.optional.methods),
                      events |-> Dedup(ns.events \o p.optional.events),
                      chains |-> Dedup(ns.chains \o optionalChains)]
                ELSE ns

\* Object.keys(...).length === 0
NoRequiredKeys(p) == ~p.required.present /\ ~p.requiredOthers
NoOptionalKeys(p) ==
  ~p.optionalDefined \/ (~p.optional.present /\ ~p.optionalOthers)

\* the single-chain default entry of lines 878-902 and 907-913
DefaultNamespaces(methods) ==
  [has |-> TRUE, accounts |-> << Account(SelectedChainId) >>,
   methods |-> methods, events |-> DefaultEvents,
   chains |-> << SelectedChainId >>]

WithOpenSeaDefaultsMainnet(ns, p) ==
  IF NoRequiredKeys(p) /\ NoOptionalKeys(p)
    THEN [has |-> TRUE,
          accounts |-> << [chain |-> 1, addr |-> AddressOf(wallet)] >>,
          methods |-> OpenSeaMethods, events |-> DefaultEvents,
          chains |-> << 1 >>]
    ELSE ns

\* lines 875-903
WithOpenSeaDefaults(ns, p) ==
  IF NoRequiredKeys(p) /\ NoOptionalKeys(p)
    THEN DefaultNamespaces(OpenSeaMethods)
    ELSE ns

\* lines 905-914
WithFallback(ns) ==
  IF ~ns.has THEN DefaultNamespaces(FallbackMethods) ELSE ns

\* the namespaces handed to signClient.approve (line 920)
Namespaces(p) ==
  WithFallback(WithOpenSeaDefaults(WithOptional(FromRequired(p), p), p))


(***************************************************************************)
(* Proposals: handleSessionProposal, approveProposal, rejectProposal,      *)
(* processSessionProposal (lines 663-697, 777-956).                        *)
(***************************************************************************)
ProposalPendingUnchecked(id) == TRUE

\* `this.pendingProposals.get(proposalId)` is truthy
ProposalPending(id) == id \in pendingProposals

\* the slot of the next approveProposal / rejectProposal invocation
NextOp(o) ==
  /\ ops[o].pc = "none"
  /\ \A q \in OpIds : q < o => ops[q].pc # "none"

\* an invocation by the decision-maker; pending records whether the id was
\* in pendingProposals when it was called, topic the session it opened,
\* approveFailed that its signClient.approve was rejected, rejects the
\* signClient.reject calls it has made; key, chain and namespaces are the
\* wallet, the selected chain and the namespaces of its signClient.approve
Op(kind, id, pc) ==
  [kind |-> kind, id |-> id, pc |-> pc, topic |-> 0,
   pending |-> id \in pendingProposals,
   approveFailed |-> FALSE, rejects |-> 0, key |-> NoWallet, chain |-> 0,
   namespaces |-> EmptyNamespaces]

HandleSessionProposalAutoApproving(id) ==
  /\ pendingProposals' = pendingProposals \cup {id}
  /\ proposalHandler' = [proposalHandler EXCEPT ![id] = "done"]
  /\ approveCalls' = [approveCalls EXCEPT ![id] = @ + 1]
  /\ UNCHANGED <<ops, rejectCalls, approvedTopics, issuedTopics, sessions,
                 clientSessions>>

HandleSessionProposalAlwaysRejecting(id) ==
  /\ pendingProposals' = pendingProposals \cup {id}
  /\ proposalHandler' = [proposalHandler EXCEPT ![id] = "awaitReject"]
  /\ rejectCalls' = [rejectCalls EXCEPT ![id] = @ + 1]
  /\ UNCHANGED <<ops, approveCalls, approvedTopics, issuedTopics, sessions,
                 clientSessions>>

\* handleSessionProposal (lines 777-806): the proposal is stored, then
\* handed to the callback, or rejected when no callback is registered
HandleSessionProposal(id) ==
  /\ pendingProposals' = pendingProposals \cup {id}
  /\ IF onProposalCallback
       THEN /\ proposalHandler' = [proposalHandler EXCEPT ![id] = "surfaced"]
            /\ UNCHANGED rejectCalls
       ELSE \* `await this.rejectProposal(id)`, with id stored just above
            /\ proposalHandler' = [proposalHandler EXCEPT ![id] =
                 IF signClient THEN "awaitReject" ELSE "done"]
            /\ rejectCalls' = [rejectCalls EXCEPT ![id] =
                 IF signClient THEN @ + 1 ELSE @]
  /\ UNCHANGED <<ops, approveCalls, approvedTopics, issuedTopics, sessions,
                 clientSessions>>

\* a session_proposal event with params p is delivered (lines 743-746)
SessionProposalEvent(id, p) ==
  /\ listenerSets > 0
  /\ proposalHandler[id] = "none"
  /\ \A q \in PropIds : q < id => proposalHandler[q] # "none"
  /\ proposalParams' = [proposalParams EXCEPT ![id] = p]
  /\ HandleSessionProposal(id)
  /\ UNCHANGED <<setupVars, reqVars, discVars, utilVars>>

\* the reject awaited by handleSessionProposal settles: rejectProposal
\* deletes the proposal on success and rethrows on failure
AutoRejectResolve(id, ok) ==
  /\ proposalHandler[id] = "awaitReject"
  /\ IF ok
       THEN /\ pendingProposals' = pendingProposals \ {id}
            /\ proposalHandler' = [proposalHandler EXCEPT ![id] = "done"]
       ELSE /\ UNCHANGED pendingProposals
            /\ proposalHandler' = [proposalHandler EXCEPT ![id] = "rejected"]
  /\ UNCHANGED <<ops, approveCalls, rejectCalls, approvedTopics, issuedTopics,
                 sessions, clientSessions>>
  /\ UNCHANGED <<setupVars, reqVars, discVars, nsVars, utilVars>>

\* approveProposal(id) (lines 663-677) with processSessionProposal
\* (lines 808-956) up to the first await: the signClient.approve of line
\* 918, or the signClient.reject of the catch at line 947 when no wallet is
\* loaded.  processSessionProposal swallows every error, so approveProposal
\* goes on to delete the proposal and returns.
ApproveProposal(o, id) ==
  /\ NextOp(o)
  /\ IF ~ProposalPending(id)
       THEN \* lines 665-668: logged, returns
            /\ ops' = [ops EXCEPT ![o] = Op("approve", id, "returned")]
            /\ UNCHANGED <<pendingProposals, approveCalls, rejectCalls>>
       ELSE IF ~signClient
         THEN /\ ops' = [ops EXCEPT ![o] = Op("approve", id, "returned")]
              /\ pendingProposals' = pendingProposals \ {id}
              /\ UNCHANGED <<approveCalls, rejectCalls>>
         ELSE IF wallet = NoWallet
           THEN /\ ops' = [ops EXCEPT ![o] =
                     [Op("approve", id, "awaitBestEffortReject")
                        EXCEPT !.rejects = 1]]
                /\ rejectCalls' = [rejectCalls EXCEPT ![id] = @ + 1]
                /\ UNCHANGED <<pendingProposals, approveCalls>>
           ELSE /\ ops' = [ops EXCEPT ![o] =
                     [Op("approve", id, "awaitApprove") EXCEPT
                        !.key = wallet,
                        !.chain = SelectedChainId,
                        !.namespaces = Namespaces(proposalParams[id])]]
                /\ approveCalls' = [approveCalls EXCEPT ![id] = @ + 1]
                /\ UNCHANGED <<pendingProposals, rejectCalls>>
  /\ UNCHANGED <<proposalHandler, approvedTopics, issuedTopics, sessions,
                 clientSessions>>
  /\ UNCHANGED <<setupVars, reqVars, discVars, nsVars, utilVars>>

\* the awaited signClient.approve settles.  On success the transport has
\* opened a session on a new topic t: lines 924-927 store it, and
\* approveProposal deletes the proposal (line 672).  On failure the catch
\* at line 937 sends the best-effort reject.
ApproveResolve(o, ok, t) ==
  /\ ops[o].pc = "awaitApprove"
  /\ IF ok
       THEN /\ t \in Topics \ issuedTopics
            /\ \A u \in Topics \ issuedTopics : t <= u
            /\ issuedTopics' = issuedTopics \cup {t}
            /\ clientSessions' = clientSessions \cup {t}
            /\ sessions' = sessions \cup {t}
            /\ approvedTopics' = approvedTopics \cup {t}
            /\ pendingProposals' = pendingProposals \ {ops[o].id}
            /\ ops' = [ops EXCEPT ![o].pc = "returned", ![o].topic = t]
            /\ UNCHANGED rejectCalls
       ELSE /\ t = 0
            /\ ops' = [ops EXCEPT ![o].pc = "awaitBestEffortReject",
                                  ![o].approveFailed = TRUE,
                                  ![o].rejects = @ + 1]
            /\ rejectCalls' = [rejectCalls EXCEPT ![ops[o].id] = @ + 1]
            /\ UNCHANGED <<issuedTopics, clientSessions, sessions,
                           approvedTopics, pendingProposals>>
  /\ UNCHANGED <<proposalHandler, approveCalls>>
  /\ UNCHANGED <<setupVars, reqVars, discVars, nsVars, utilVars>>

BestEffortRejectResolveRetrying(o, ok) ==
  /\ ops[o].pc = "awaitBestEffortReject"
  /\ IF ok \/ ops[o].rejects >= 2
       THEN /\ ops' = [ops EXCEPT ![o].pc = "returned"]
            /\ pendingProposals' = pendingProposals \ {ops[o].id}
            /\ UNCHANGED rejectCalls
       ELSE /\ ops' = [ops EXCEPT ![o].rejects = @ + 1]
            /\ rejectCalls' = [rejectCalls EXCEPT ![ops[o].id] = @ + 1]
            /\ UNCHANGED pendingProposals
  /\ UNCHANGED <<proposalHandler, approveCalls, approvedTopics,
                 issuedTopics, sessions, clientSessions>>
  /\ UNCHANGED <<setupVars, reqVars, discVars, nsVars, utilVars>>

\* the best-effort reject of processSessionProposal settles; its failure is
\* caught at line 952.  processSessionProposal has swallowed the error, so
\* approveProposal deletes the proposal (line 672) and returns.
BestEffortRejectResolve(o, ok) ==
  /\ ops[o].pc = "awaitBestEffortReject"
  /\ ops' = [ops EXCEPT ![o].pc = "returned"]
  /\ pendingProposals' = pendingProposals \ {ops[o].id}
  /\ UNCHANGED <<proposalHandler, approveCalls, rejectCalls, approvedTopics,
                 issuedTopics, sessions, clientSessions>>
  /\ UNCHANGED <<setupVars, reqVars, discVars, nsVars, utilVars>>

\* rejectProposal(id) called by the decision-maker (lines 679-697), up to
\* its await
RejectProposal(o, id) ==
  /\ NextOp(o)
  /\ IF ~ProposalPending(id) \/ ~signClient
       THEN \* lines 681-684: logged, returns
            /\ ops' = [ops EXCEPT ![o] = Op("reject", id, "returned")]
            /\ UNCHANGED rejectCalls
       ELSE /\ ops' = [ops EXCEPT ![o] =
                 [Op("reject", id, "awaitReject") EXCEPT !.rejects = 1]]
            /\ rejectCalls' = [rejectCalls EXCEPT ![id] = @ + 1]
  /\ UNCHANGED <<pendingProposals, proposalHandler, approveCalls,
                 approvedTopics, issuedTopics, sessions, clientSessions>>
  /\ UNCHANGED <<setupVars, reqVars, discVars, nsVars, utilVars>>

\* pendingProposals after the signClient.reject awaited by rejectProposal
\* has settled: the delete of line 691 sits after the await, inside the try
AfterReject(id, ok) ==
  IF ok THEN pendingProposals \ {id} ELSE pendingProposals

RejectResolve(o, ok) ==
  /\ ops[o].pc = "awaitReject"
  /\ pendingProposals' = AfterReject(ops[o].id, ok)
  /\ ops' = [ops EXCEPT ![o].pc = IF ok THEN "returned" ELSE "threw"]
  /\ UNCHANGED <<proposalHandler, approveCalls, rejectCalls, approvedTopics,
                 issuedTopics, sessions, clientSessions>>
  /\ UNCHANGED <<setupVars, reqVars, discVars, nsVars, utilVars>>

\* getSessions() (lines 1254-1274): sessions of the transport's store that
\* the map lacks are added
GetSessions(getAllThrows) ==
  /\ signClient
  /\ sessions' = RestoredSessions(getAllThrows)
  /\ UNCHANGED <<setupVars, clientSessions, reqVars, propVars, discVars, utilVars>>

\* The decision-maker's side: one wallet key on chain 1, initialize() and
\* connectWithUri() called one after the other as handleConnect does, and
\* the proposal callback registered before the SignClient exists or never.
NextProposals ==
  \/ ~signClient /\ SetOnProposalCallback
  \/ conn.pc = "idle" /\ InitializeCall
  \/ \E ok, g \in BOOLEAN : InitializeResolve(ok, g)
  \/ initDirect = "idle" /\ ConnectWithUri("k1", 1)
  \/ \E ok, g \in BOOLEAN : ConnectResume(ok, g)
  \/ \E id \in PropIds : SessionProposalEvent(id, PlainProposal)
  \/ \E id \in PropIds, ok \in BOOLEAN : AutoRejectResolve(id, ok)
  \/ \E o \in OpIds, id \in PropIds : ApproveProposal(o, id)
  \/ \E o \in OpIds, ok \in BOOLEAN, t \in Topics \cup {0} : ApproveResolve(o, ok, t)
  \/ \E o \in OpIds, ok \in BOOLEAN : BestEffortRejectResolve(o, ok)
  \/ \E o \in OpIds, id \in PropIds : RejectProposal(o, id)
  \/ \E o \in OpIds, ok \in BOOLEAN : RejectResolve(o, ok)
  \/ \E g \in BOOLEAN : GetSessions(g)

SpecProposals == Init /\ [][NextProposals]_vars


(***************************************************************************)
(* Claims about proposals and sessions.                                    *)
(***************************************************************************)
\* the step issues signClient.approve for proposal id
ApproveIssued(id) == approveCalls'[id] # approveCalls[id]

\* the step is the synchronous prefix of an approveProposal(id) invocation
\* that reaches signClient.approve
InsideApproveProposal(id) ==
  \E o \in OpIds :
    /\ ops[o].pc = "none"
    /\ ops'[o].kind = "approve"
    /\ ops'[o].id = id
    /\ ops'[o].pc = "awaitApprove"

\* the step is handleSessionProposal receiving proposal id
ProposalReceived(id) ==
  proposalHandler[id] = "none" /\ proposalHandler'[id] # "none"

\* C5: signClient.approve is called for a proposal id only inside an
\* approveProposal(id) call; receiving a session_proposal event by itself
\* neither approves the proposal nor adds a Session.
C5_ApproveOnlyInsideApproveProposal ==
  [][\A id \in PropIds :
       /\ ApproveIssued(id) => InsideApproveProposal(id)
       /\ ProposalReceived(id) =>
            (approveCalls' = approveCalls /\ sessions' = sessions)]_vars

\* C5 witness: a proposal was received and surfaced, it is pending, and no
\* approve was sent for it
C5_Witness ==
  \E id \in PropIds :
    /\ proposalHandler[id] = "surfaced"
    /\ id \in pendingProposals
    /\ approveCalls[id] = 0
    /\ sessions \cap approvedTopics = {}

ApprovedInStep(t) ==
  \E o \in OpIds :
    /\ ops[o].kind = "approve"
    /\ ops[o].pending
    /\ ops[o].pc = "awaitApprove"
    /\ ops'[o].pc = "returned"
    /\ ops'[o].topic = t

C7_UnknownIdFails ==
  \A o \in OpIds :
    (ops[o].pc # "none" /\ ~ops[o].pending) => ops[o].pc = "threw"

\* the step is an approveProposal(id) call for an id not in pendingProposals
ApproveOfUnknownId(o) ==
  /\ ops[o].pc = "none"
  /\ ops'[o].pc # "none"
  /\ ops'[o].kind = "approve"
  /\ ops'[o].id \notin pendingProposals

\* C8: approveProposal(id) with an id that is not in pendingProposals makes
\* no transport call, leaves sessions and pendingProposals unchanged and is
\* over at once: no Session is created.
C8_ApproveUnknownIdNoEffect ==
  [][\A o \in OpIds :
       ApproveOfUnknownId(o) =>
         /\ approveCalls' = approveCalls
         /\ rejectCalls' = rejectCalls
         /\ sessions' = sessions
         /\ pendingProposals' = pendingProposals
         /\ ops'[o].pc \in {"returned", "threw"}]_vars

\* C8 witness: an approveProposal call for an id that was not pending is over
C8_Witness ==
  \E o \in OpIds :
    /\ ops[o].kind = "approve"
    /\ ~ops[o].pending
    /\ ops[o].pc = "returned"

\* C9: once rejectProposal(id) for a pending id has ended, by returning or
\* by throwing, id is no longer in pendingProposals.
C9_RejectAlwaysRemoves ==
  \A o \in OpIds :
    ( /\ ops[o].kind = "reject"
      /\ ops[o].pending
      /\ ops[o].pc \in {"returned", "threw"} )
      => ops[o].id \notin pendingProposals

\* C10: approveProposal(id) for a pending id returns normally only if a
\* Session for that proposal was created; a failed approve, or a missing
\* wallet or SignClient, makes it throw.
C10_ApproveReportsFailure ==
  \A o \in OpIds :
    (ops[o].kind = "approve" /\ ops[o].pending /\ ops[o].pc = "returned")
      => (ops[o].topic # 0 /\ ops[o].topic \in approvedTopics)

\* C11: an approveProposal invocation whose signClient.approve failed has
\* made exactly one signClient.reject call, for the same proposal id, and
\* that call is all that follows: the invocation waits for it or has
\* returned, and a failed reject is not tried again.
C11_OneBestEffortReject ==
  \A o \in OpIds :
    ops[o].approveFailed =>
      /\ ops[o].rejects = 1
      /\ rejectCalls[ops[o].id] >= 1
      /\ approveCalls[ops[o].id] >= 1
      /\ ops[o].pc \in {"awaitBestEffortReject", "returned"}

\* C11 witness: an approveProposal whose approve failed has finished after
\* its one reject
C11_Witness ==
  \E o \in OpIds :
    /\ ops[o].approveFailed
    /\ ops[o].pc = "returned"
    /\ ops[o].rejects = 1

\* neither approveProposal nor rejectProposal has been called for id
NoDecision(id) == \A o \in OpIds : ops[o].pc = "none" \/ ops[o].id # id

\* C12 as stated: a proposal that was received stays in pendingProposals,
\* with no reject sent, until approveProposal or rejectProposal is called
\* for its id, whether or not a proposal callback is registered.
C12_PendingUntilDecided ==
  \A id \in PropIds :
    (proposalHandler[id] # "none" /\ NoDecision(id))
      => (id \in pendingProposals /\ rejectCalls[id] = 0)

\* the state of a received proposal that nobody has decided on
UndecidedProposalState(id) ==
  CASE proposalHandler[id] = "surfaced" ->
         id \in pendingProposals /\ rejectCalls[id] = 0
    [] proposalHandler[id] = "awaitReject" ->
         id \in pendingProposals /\ rejectCalls[id] = 1
    [] proposalHandler[id] = "done" ->
         id \notin pendingProposals /\ rejectCalls[id] = 1
    [] proposalHandler[id] = "rejected" ->
         id \in pendingProposals /\ rejectCalls[id] = 1
    [] OTHER -> FALSE

\* C12 amended: when a proposal callback is registered at the time the
\* session_proposal event is received, the proposal stays in
\* pendingProposals and no reject is sent until approveProposal or
\* rejectProposal is called for its id.  When none is registered,
\* handleSessionProposal itself calls rejectProposal(id): exactly one reject
\* is sent, and the proposal leaves pendingProposals if that reject
\* succeeds and stays if it fails.
C12_PendingUntilDecidedOrAutoRejected ==
  /\ [](\A id \in PropIds :
          (proposalHandler[id] # "none" /\ NoDecision(id))
            => UndecidedProposalState(id))
  /\ [][\A id \in PropIds :
          ProposalReceived(id) =>
            /\ id \in pendingProposals'
            /\ onProposalCallback =>
                 (rejectCalls' = rejectCalls
                    /\ proposalHandler'[id] = "surfaced")
            /\ ~onProposalCallback =>
                 rejectCalls'[id] = rejectCalls[id] + 1]_vars

\* C12 witness: a proposal received without a callback was rejected and
\* removed without any approveProposal or rejectProposal call
C12_Witness ==
  \E id \in PropIds :
    /\ proposalHandler[id] = "done"
    /\ NoDecision(id)
    /\ id \notin pendingProposals
    /\ rejectCalls[id] = 1


(***************************************************************************)
(* Sessions being closed: disconnectSession, session_delete,               *)
(* session_expire, with getSessions and requests arriving around them.     *)
(***************************************************************************)
\* requests of one kind are enough to exercise the session lookup
ChainIdRequests == {e \in RequestEvents : e.method = "eth_chainId"}

NextSessions ==
  \/ ConnectWithUri("k1", 1)
  \/ \E ok, g \in BOOLEAN : ConnectResume(ok, g)
  \/ \E d \in DiscIds, t \in Topics : DisconnectSession(d, t)
  \/ \E d \in DiscIds, ok \in BOOLEAN : DisconnectResolve(d, ok)
  \/ \E t \in Topics : SessionDeleteEvent(t)
  \/ \E t \in Topics : SessionExpireEvent(t)
  \/ \E g \in BOOLEAN : GetSessions(g)
  \/ \E r \in ReqIds, e \in ChainIdRequests :
       r = 1 /\ SessionRequestEvent(r, e)
  \/ \E r \in ReqIds, ok \in BOOLEAN : RespondResolve(r, ok)

SpecSessions == Init /\ [][NextSessions]_vars

DisconnectOfAbsentTopic(d) ==
  /\ disc[d].pc = "none"
  /\ disc'[d].pc # "none"
  /\ disc'[d].topic \notin sessions

\* the step is a session_delete or session_expire event for topic t, which
\* is not in sessions
CloseEventOnAbsentTopic(t) ==
  /\ t \in clientSessions
  /\ t \notin clientSessions'
  /\ disc' = disc
  /\ t \notin sessions

\* C14: disconnectSession(topic), the session_delete handler and the
\* session_expire handler applied to a topic that is not, or no longer, in
\* sessions make no transport call and leave sessions unchanged, and
\* disconnectSession returns normally.
C14_ClosingIsIdempotent ==
  [][/\ \A d \in DiscIds :
          DisconnectOfAbsentTopic(d) =>
            /\ disconnectCalls' = disconnectCalls
            /\ sessions' = sessions
            /\ disc'[d].pc = "returned"
     /\ \A t \in Topics :
          CloseEventOnAbsentTopic(t) =>
            /\ disconnectCalls' = disconnectCalls
            /\ sessions' = sessions
            /\ respondCalls' = respondCalls]_vars

\* C14 witness: disconnectSession was called again for a topic that an
\* earlier close had removed, and it returned
C14_Witness ==
  \E d \in DiscIds :
    /\ disc[d].pc = "returned"
    /\ ~disc[d].had
    /\ disc[d].topic \in closed


(***************************************************************************)
(* More claims about handleSessionRequest.                                 *)
(***************************************************************************)
\* the methods the switch of lines 996-1167 has a case for
DispatchTable == Methods \ {"eth_subscribe"}

\* C15: a request whose method is not in the dispatch table is answered
\* with an error response; no response sent for it carries a result.
C15_UnknownMethodGetsError ==
  \A r \in ReqIds :
    (reqs[r].pc # "none" /\ reqs[r].method \notin DispatchTable)
      => \A i \in 1..Len(respondCalls[r]) : respondCalls[r][i].type = "error"

\* C16: handleSessionRequest never ends in an unhandled failure: the
\* promise of the session_request callback is never rejected.
C16_HandlerNeverRejects == \A r \in ReqIds : reqs[r].pc # "rejected"


(***************************************************************************)
(* Namespaces: one proposal with any params, approved once; the wallet     *)
(* may be replaced by a later connectWithUri while the session is open.    *)
(***************************************************************************)
NextNamespaces ==
  \/ ~signClient /\ SetOnProposalCallback
  \/ \E c \in ChainIds :
       onProposalCallback /\ wallet = NoWallet /\ ConnectWithUri("k1", c)
  \/ \E ok, g \in BOOLEAN : ConnectResume(ok, g)
  \/ /\ wallet # NoWallet
     /\ proposalHandler[1] = "none"
     /\ \E p \in ProposalParams : SessionProposalEvent(1, p)
  \/ \E o \in OpIds, id \in PropIds :
       o = 1 /\ id \in pendingProposals /\ ApproveProposal(o, id)
  \/ \E o \in OpIds, ok \in BOOLEAN, t \in Topics \cup {0} : ApproveResolve(o, ok, t)
  \/ \E o \in OpIds, ok \in BOOLEAN : BestEffortRejectResolve(o, ok)
  \/ \E c \in ChainIds :
       sessions \cap approvedTopics # {} /\ ConnectWithUri("k2", c)

SpecNamespaces == Init /\ [][NextNamespaces]_vars

\* approveProposal invocation o has called signClient.approve
ApproveSent(o) == ops[o].kind = "approve" /\ ops[o].key # NoWallet

\* the elements of a list
Range(seq) == {seq[i] : i \in 1..Len(seq)}

\* C17: the accounts approved for every open session carry the address of
\* the manager's current wallet, also after connectWithUri has been called
\* again with another private key.
C17_AccountsOfCurrentWallet ==
  \A o \in OpIds :
    (ApproveSent(o) /\ ops[o].topic # 0 /\ ops[o].topic \in sessions)
      => \A i \in 1..Len(ops[o].namespaces.accounts) :
           ops[o].namespaces.accounts[i].addr = AddressOf(wallet)

\* the proposal names eip155 with a chain list as its only required
\* namespace and has no optional namespaces
RequiredOnly(p) ==
  /\ p.required.present
  /\ p.required.chainsGiven
  /\ ~p.requiredOthers
  /\ NoOptionalKeys(p)

NoNamespacesAtAll(p) == NoRequiredKeys(p) /\ NoOptionalKeys(p)

RequiredChains(o) ==
  LET req == proposalParams[ops[o].id].required IN
  IF req.chainsGiven THEN req.chains ELSE << ops[o].chain >>

\* C20: when a proposal names eip155 in its required and in its optional
\* namespaces, the approved chains, methods and events are each the union
\* of the required and the optional lists.
C20_UnionOfRequiredAndOptional ==
  \A o \in OpIds :
    LET p == proposalParams[ops[o].id] IN
    (ApproveSent(o) /\ p.required.present /\ p.optionalDefined
       /\ p.optional.present) =>
      LET ns == ops[o].namespaces IN
        /\ Range(ns.chains) =
             Range(RequiredChains(o)) \cup Range(p.optional.chains)
        /\ Range(ns.methods) =
             Range(p.required.methods) \cup Range(p.optional.methods)
        /\ Range(ns.events) =
             Range(p.required.events) \cup Range(p.optional.events)

\* the keys of an object of the proposal: eip155, and "other" for any key
\* besides eip155 (solana, cosmos, ...)
RequiredPrefixes(p) ==
  (IF p.required.present THEN {"eip155"} ELSE {}) \cup
  (IF p.requiredOthers THEN {"other"} ELSE {})

\* Object.keys(namespaces): the builder assigns namespaces.eip155 only
ApprovedPrefixes(ns) == IF ns.has THEN {"eip155"} ELSE {}

\* C21: for every namespace prefix present in a proposal's required
\* namespaces (eip155 or any other) and every chain declared under it, the
\* namespaces passed to signClient.approve have an entry for that prefix
\* holding the account of the wallet on that chain.
C21_EveryRequiredPrefixApproved ==
  \A o \in OpIds :
    ApproveSent(o) =>
      LET p == proposalParams[ops[o].id]
          ns == ops[o].namespaces
      IN /\ RequiredPrefixes(p) \subseteq ApprovedPrefixes(ns)
         /\ p.required.present =>
              \A i \in 1..Len(p.required.chains) :
                Includes(ns.accounts,
                         [chain |-> p.required.chains[i],
                          addr |-> AddressOf(ops[o].key)])

\* no element of the list occurs twice
NoDuplicates(seq) ==
  \A i, j \in 1..Len(seq) : seq[i] = seq[j] => i = j

\* C22: the accounts, methods and events lists passed to signClient.approve
\* never contain a duplicate element, also when the proposal's own lists
\* contain repeated entries.
C22_ApprovedListsDeduplicated ==
  \A o \in OpIds :
    ApproveSent(o) =>
      /\ NoDuplicates(ops[o].namespaces.accounts)
      /\ NoDuplicates(ops[o].namespaces.methods)
      /\ NoDuplicates(ops[o].namespaces.events)

\* C23: whenever signClient.approve is called, its namespaces argument has
\* at least one namespace, and every namespace in it has at least one chain
\* and at least one account, also for a proposal whose eip155 entry declares
\* an empty chain list.
C23_ApprovedNamespacesNeverEmpty ==
  \A o \in OpIds :
    ApproveSent(o) =>
      /\ ApprovedPrefixes(ops[o].namespaces) # {}
      /\ Len(ops[o].namespaces.chains) > 0
      /\ Len(ops[o].namespaces.accounts) > 0

\* the results sent for request r with signClient.respond
ResultsSent(r) ==
  {respondCalls[r][i].result :
     i \in {j \in 1..Len(respondCalls[r]) : respondCalls[r][j].type = "result"}}

\* C24: an eth_sendTransaction request is answered with the hash of the
\* transaction submitted to the network, and an eth_signTransaction request
\* with the signed transaction payload, nothing being submitted.
C24_SendReturnsHashSignReturnsPayload ==
  \A r \in ReqIds :
    /\ reqs[r].method = "eth_sendTransaction" =>
         \A res \in ResultsSent(r) : res.kind = "transactionHash"
    /\ reqs[r].method = "eth_signTransaction" =>
         \A res \in ResultsSent(r) : res.kind = "signedTransaction"

(***************************************************************************)
(* The selected chain: sessions approved under one chain, connectWithUri   *)
(* called again with another, and the chain requests of the dispatch       *)
(* (lines 1123-1139, 1151-1156) arriving on the open sessions.             *)
(***************************************************************************)
ChainMethods ==
  {"eth_chainId", "net_version", "wallet_switchEthereumChain",
   "wallet_addEthereumChain"}

ChainRequests == {e \in RequestEvents : e.method \in ChainMethods}

NextChains ==
  \/ ~signClient /\ SetOnProposalCallback
  \/ \E c \in ChainIds : onProposalCallback /\ ConnectWithUri("k1", c)
  \/ \E ok, g \in BOOLEAN : ConnectResume(ok, g)
  \/ wallet # NoWallet /\ SessionProposalEvent(1, PlainProposal)
  \/ 1 \in pendingProposals /\ ApproveProposal(1, 1)
  \/ \E ok \in BOOLEAN, t \in Topics \cup {0} : ApproveResolve(1, ok, t)
  \/ \E ok \in BOOLEAN : BestEffortRejectResolve(1, ok)
  \/ \E r \in ReqIds, e \in ChainRequests :
       r = 1 /\ e.topic \in clientSessions /\ SessionRequestEvent(r, e)
  \/ \E r \in ReqIds, ok \in BOOLEAN : RespondResolve(r, ok)

SpecChains == Init /\ [][NextChains]_vars

\* `0x${id.toString(16)}` and id.toString()
HexOf(id) == <<"0", "x">> \o ToDigits(id, 16)
DecimalOf(id) == ToDigits(id, 10)

\* C25: eth_chainId and net_version requests on a session return the id of
\* the chain that was selected when the session was opened, in hex and in
\* decimal; a later connectWithUri with another chain does not change the
\* answer given on a session that is already open.
C25_ChainOfTheSession ==
  \A r \in ReqIds, o \in OpIds :
    (ApproveSent(o) /\ ops[o].topic # 0 /\ reqs[r].topic = ops[o].topic) =>
      \A res \in ResultsSent(r) :
        /\ reqs[r].method = "eth_chainId" => res.text = HexOf(ops[o].chain)
        /\ reqs[r].method = "net_version" => res.text = DecimalOf(ops[o].chain)

\* the step handles the session_request r of a chain switch or chain
\* addition up to its signClient.respond call
HandlesSwitchOrAdd(r) ==
  /\ reqs[r].pc = "none"
  /\ reqs'[r].pc # "none"
  /\ reqs'[r].method \in {"wallet_switchEthereumChain",
                          "wallet_addEthereumChain"}

\* the one respond call made for r carries the result null
AnsweredWithNull(r) ==
  /\ Len(respondCalls'[r]) = 1
  /\ respondCalls'[r][1].type = "result"
  /\ respondCalls'[r][1].result = Result("null", Absent, <<>>)

coreVars ==
  <<setupVars, sessions, clientSessions, reqVars, propVars, discVars,
    consoleLog>>
managerVars == <<coreVars, sideVars>>

\* encryptPrivateKey(privateKey, password) is called and returns its blob
EncryptPrivateKeyCall(privateKey, password) ==
  /\ crypt.pc = "none"
  /\ keyCheck = NoKeyCheck
  /\ \E salt \in Salts, iv \in IVs :
       crypt' = [pc |-> "encrypted", secret |-> privateKey,
                 password |-> password,
                 blob |-> encryptPrivateKey(privateKey, password, salt, iv),
                 tried |-> "-", outcome |-> NoOutcome]
  /\ UNCHANGED <<keyCheck, managerVars>>

\* decryptPrivateKey(blob, password) is called on that blob
DecryptPrivateKeyCall(password) ==
  /\ crypt.pc = "encrypted"
  /\ crypt' = [crypt EXCEPT !.pc = "decrypted", !.tried = password,
                            !.outcome = decryptPrivateKey(crypt.blob, password)]
  /\ UNCHANGED <<keyCheck, managerVars>>

\* validatePrivateKey(input) is called
ValidatePrivateKeyCall(input) ==
  /\ crypt.pc = "none"
  /\ keyCheck.validated = "-"
  /\ keyCheck.imported = "-" \/ keyCheck.input = input
  /\ keyCheck' = [keyCheck EXCEPT
                    !.input = input,
                    !.validated = IF validatePrivateKey(input)
                                    THEN "true" ELSE "false"]
  /\ UNCHANGED <<crypt, managerVars>>

\* getWalletFromPrivateKey(input) is called
GetWalletFromPrivateKeyCall(input) ==
  /\ crypt.pc = "none"
  /\ keyCheck.imported = "-"
  /\ keyCheck.validated = "-" \/ keyCheck.input = input
  /\ keyCheck' = [keyCheck EXCEPT
                    !.input = input,
                    !.imported = IF getWalletFromPrivateKey(input)
                                   THEN "returned" ELSE "threw"]
  /\ UNCHANGED <<crypt, managerVars>>

NextKeyStore ==
  \/ /\ crypt.pc = "none"
     /\ keyCheck = NoKeyCheck
     /\ \E s \in Secrets, p \in Passwords : EncryptPrivateKeyCall(s, p)
  \/ \E p \in Passwords : DecryptPrivateKeyCall(p)
  \/ /\ crypt.pc = "none"
     /\ keyCheck.validated = "-"
     /\ \E input \in IF keyCheck.imported = "-"
                       THEN KeyInputs ELSE {keyCheck.input} :
          ValidatePrivateKeyCall(input)
  \/ /\ crypt.pc = "none"
     /\ keyCheck.imported = "-"
     /\ \E input \in IF keyCheck.validated = "-"
                       THEN KeyInputs ELSE {keyCheck.input} :
          GetWalletFromPrivateKeyCall(input)

SpecKeyStore == Init /\ [][NextKeyStore]_vars

\* C27: for every private key S and password P,
\* decryptPrivateKey(encryptPrivateKey(S, P), P) returns exactly S.
C27_RoundTrip ==
  (crypt.pc = "decrypted" /\ crypt.tried = crypt.password) =>
    crypt.outcome = Returned(crypt.secret)

\* C27 witness: a secret of two blocks with a two-octet character was
\* encrypted and decrypted with the same password
C27_Witness ==
  /\ crypt.pc = "decrypted"
  /\ crypt.tried = crypt.password
  /\ Len(crypt.blob.encrypted) > BlockSize
  /\ \E i \in 1..Len(crypt.secret) : crypt.secret[i] = WideChar

\* C28: for every private key S and two different passwords P and P',
\* decryptPrivateKey(encryptPrivateKey(S, P), P') throws; it never returns
\* a value, neither a wrong secret nor an empty string.
C28_WrongPasswordThrows ==
  (crypt.pc = "decrypted" /\ crypt.tried # crypt.password) =>
    crypt.outcome.threw

\* C29: validatePrivateKey never throws, returns false for every input of
\* wrong length or with a non-hex character, and returns true exactly for
\* the inputs on which getWalletFromPrivateKey succeeds: KeyDigits hex
\* digits forming a valid key, with or without the 0x prefix.
C29_ValidateAgreesWithImport ==
  /\ keyCheck.validated \in {"-", "true", "false"}
  /\ keyCheck.validated # "-" =>
       LET s == keyCheck.input.chars
           digits == IF StartsWith0x(s) THEN SubSeq(s, 3, Len(s)) ELSE s
       IN /\ (~keyCheck.input.isString
                \/ Len(digits) # KeyDigits
                \/ \E i \in 1..Len(digits) : digits[i] \in {"g", "x"})
               => keyCheck.validated = "false"
          /\ keyCheck.imported # "-" =>
               (keyCheck.validated = "true" <=> keyCheck.imported = "returned")

\* C29 witness: both functions were called on a valid key given without
\* the 0x prefix
C29_Witness ==
  /\ keyCheck.validated = "true"
  /\ keyCheck.imported = "returned"
  /\ ~StartsWith0x(keyCheck.input.chars)

\* what must not reach the console: a private key or part of one, a
\* pairing's symmetric key, a password
SensitiveKinds == {"privateKey", "privateKeyPrefix", "symKey", "password"}

\* C30: no diagnostic output of the session manager contains the private
\* key or any part of it, a pairing symmetric key, or a password.
C30_NothingSensitiveLogged ==
  \A item \in consoleLog : item.kind \notin SensitiveKinds

\* the best-effort rejects sent for proposal id after a failed approve
BestEffortRejects(id) ==
  Cardinality({o \in OpIds : ops[o].id = id /\ ops[o].approveFailed})

\* C31: for every proposal id the transport receives at most one decision:
\* apart from the best-effort reject that follows a failed approve,
\* signClient.approve and signClient.reject are together called at most
\* once for that id, also when approveProposal(id) or rejectProposal(id) is
\* called again while an earlier call for the id awaits the transport.
C31_OneDecisionPerProposal ==
  \A id \in PropIds :
    approveCalls[id] + rejectCalls[id] - BestEffortRejects(id) <= 1

(***************************************************************************)
(* Several session_request events: the listener of lines 749-752 is an     *)
(* async function, the emitter calls it for each event as it comes.        *)
(***************************************************************************)
\* a signing request and a query are enough to see handlers overlap
OverlapRequests ==
  {e \in RequestEvents :
     /\ e.method \in {"personal_sign", "eth_chainId"}
     /\ e.target = Absent
     /\ e.payload \in {"plain", "ok"}}

NextHandlers ==
  \/ wallet = NoWallet /\ ConnectWithUri("k1", 1)
  \/ \E ok, g \in BOOLEAN : ConnectResume(ok, g)
  \/ \E r \in ReqIds, e \in OverlapRequests : SessionRequestEvent(r, e)
  \/ \E r \in ReqIds, ok \in BOOLEAN : SignResolve(r, ok)
  \/ \E r \in ReqIds, ok \in BOOLEAN : RespondResolve(r, ok)

SpecHandlers == Init /\ [][NextHandlers]_vars

\* handleSessionRequest for event r has started and has not finished: it
\* waits for the wallet or for signClient.respond
InFlight(r) ==
  reqs[r].pc \in {"awaitSign", "awaitSignDecoded", "awaitRespond",
                  "awaitErrRespond"}

\* C32: session_request events are processed one at a time: the handler of
\* one event runs to completion, its awaited signing and respond calls
\* included, before the handler of the next event starts; two request
\* handlers never interleave.
C32_HandlersNeverInterleave ==
  \A r, q \in ReqIds : (InFlight(r) /\ InFlight(q)) => r = q

\* C33: SignClient.init is executed and the transport event listeners are
\* registered at most once per manager, also when initialize() is called a
\* second time, directly or through connectWithUri, before the first call
\* has finished.
C33_ListenersRegisteredOnce == listenerSets <= 1

(***************************************************************************)
(* OpenSeaWalletConnectManager with the processingRequest flag             *)
(* (src/unnamed/part_005): initialize, connectWithUri, the session_proposal*)
(* and session_request listeners, handleSessionProposal and                *)
(* handleSessionRequest.  An event is identified by its id; the session    *)
(* approved for proposal e has topic e.                                    *)
(***************************************************************************)
besidesOpenSea == <<coreVars, keyStoreVars, openSeaFixed, discAll, worker, page>>
besidesOpenSeaFixed == <<coreVars, keyStoreVars, openSea, discAll, worker, page>>

OpenSeaRequestMethods == {"personal_sign", "eth_chainId", "eth_unknown"}
OpenSeaSigning == {"personal_sign"}
OpenSeaSupported == {"personal_sign", "eth_chainId"}

\* initialize(true) of connectWithUri up to the registration of the listeners
OpenSeaInitialize ==
  /\ ~openSea.signClient
  /\ openSea' = [openSea EXCEPT !.signClient = TRUE]
  /\ UNCHANGED besidesOpenSea

\* connectWithUri after initialize: this.wallet = new ethers.Wallet(...)
OpenSeaWalletCreated ==
  /\ openSea.signClient
  /\ ~openSea.wallet
  /\ openSea' = [openSea EXCEPT !.wallet = TRUE]
  /\ UNCHANGED besidesOpenSea

\* handleSessionProposal / handleSessionRequest from their first statement to
\* their first await, for event e, in manager state m
OpenSeaHandlerStart(m, e, kind, method, guarded) ==
  LET run(pc) == [kind |-> kind, method |-> method, pc |-> pc,
                  guarded |-> guarded] IN
  IF kind = "proposal"
  THEN IF ~m.wallet
       THEN [m EXCEPT !.runs[e] = run("awaitReject"),
                      !.rejectCalls[e] = @ + 1]
       ELSE [m EXCEPT !.runs[e] = run("awaitApprove"),
                      !.approveCalls[e] = @ + 1]
  ELSE IF ~m.wallet \/ method \notin OpenSeaSupported
       THEN [m EXCEPT !.runs[e] = run("awaitErrRespond"),
                      !.respondCalls[e] = Append(@, "error")]
       ELSE IF method \in OpenSeaSigning
            THEN [m EXCEPT !.runs[e] = run("awaitSign")]
            ELSE [m EXCEPT !.runs[e] = run("awaitRespond"),
                           !.respondCalls[e] = Append(@, "result")]

\* the handler of event e returns; the listener's finally block resets the
\* flag when the handler was started by the listener itself
OpenSeaHandlerReturn(m, e) ==
  [m EXCEPT !.runs[e].pc = "done",
            !.processingRequest = IF m.runs[e].guarded THEN FALSE ELSE @]

\* a session_proposal or session_request event reaches its listener
OpenSeaEvent(e, kind, method) ==
  /\ openSea.signClient
  /\ openSea.runs[e].kind = "none"
  /\ kind = "proposal" => method = "-"
  /\ kind = "request" => method \in OpenSeaRequestMethods
  /\ IF openSea.processingRequest
     THEN openSea' = [openSea EXCEPT !.runs[e] =
            [kind |-> kind, method |-> method, pc |-> "timer",
             guarded |-> FALSE]]
     ELSE openSea' = OpenSeaHandlerStart(
            [openSea EXCEPT !.processingRequest = TRUE],
            e, kind, method, TRUE)
  /\ UNCHANGED besidesOpenSea

\* the timer set by a listener that found the flag set fires
OpenSeaTimer(e) ==
  /\ openSea.runs[e].pc = "timer"
  /\ openSea' = OpenSeaHandlerStart(openSea, e, openSea.runs[e].kind,
                                    openSea.runs[e].method, FALSE)
  /\ UNCHANGED besidesOpenSea

\* signClient.approve settles
OpenSeaApproveResolve(e, ok) ==
  /\ openSea.runs[e].pc = "awaitApprove"
  /\ openSea' =
       IF ok
       THEN OpenSeaHandlerReturn(
              [openSea EXCEPT !.sessions = @ \cup {e}], e)
       ELSE [openSea EXCEPT !.runs[e].pc = "awaitReject",
                            !.rejectCalls[e] = @ + 1]
  /\ UNCHANGED besidesOpenSea

\* signClient.reject settles; a failure is logged only
OpenSeaRejectResolve(e) ==
  /\ openSea.runs[e].pc = "awaitReject"
  /\ openSea' = OpenSeaHandlerReturn(openSea, e)
  /\ UNCHANGED besidesOpenSea

\* wallet.signMessage settles
OpenSeaSignResolve(e, ok) ==
  /\ openSea.runs[e].pc = "awaitSign"
  /\ openSea' =
       IF ok
       THEN [openSea EXCEPT !.runs[e].pc = "awaitRespond",
                            !.respondCalls[e] = Append(@, "result")]
       ELSE [openSea EXCEPT !.runs[e].pc = "awaitErrRespond",
                            !.respondCalls[e] = Append(@, "error")]
  /\ UNCHANGED besidesOpenSea

\* signClient.respond with the result settles
OpenSeaRespondResolve(e, ok) ==
  /\ openSea.runs[e].pc = "awaitRespond"
  /\ openSea' =
       IF ok
       THEN OpenSeaHandlerReturn(openSea, e)
       ELSE [openSea EXCEPT !.runs[e].pc = "awaitErrRespond",
                            !.respondCalls[e] = Append(@, "error")]
  /\ UNCHANGED besidesOpenSea

\* signClient.respond with the error settles; a failure is logged only
OpenSeaErrRespondResolve(e) ==
  /\ openSea.runs[e].pc = "awaitErrRespond"
  /\ openSea' = OpenSeaHandlerReturn(openSea, e)
  /\ UNCHANGED besidesOpenSea

NextOpenSea ==
  \/ OpenSeaInitialize
  \/ OpenSeaWalletCreated
  \/ \E e \in EvIds, k \in {"proposal", "request"},
        m \in OpenSeaRequestMethods \cup {"-"} : OpenSeaEvent(e, k, m)
  \/ \E e \in EvIds : OpenSeaTimer(e)
  \/ \E e \in EvIds, ok \in BOOLEAN : OpenSeaApproveResolve(e, ok)
  \/ \E e \in EvIds : OpenSeaRejectResolve(e)
  \/ \E e \in EvIds, ok \in BOOLEAN : OpenSeaSignResolve(e, ok)
  \/ \E e \in EvIds, ok \in BOOLEAN : OpenSeaRespondResolve(e, ok)
  \/ \E e \in EvIds : OpenSeaErrRespondResolve(e)

SpecOpenSea == Init /\ [][NextOpenSea]_vars

\* handleSessionProposal or handleSessionRequest is executing for event e
OpenSeaExecuting(e) ==
  openSea.runs[e].pc \in
    {"awaitApprove", "awaitReject", "awaitSign", "awaitRespond",
     "awaitErrRespond"}

\* C34: in the manager that guards its handlers with processingRequest, at
\* most one of handleSessionProposal and handleSessionRequest is executing at
\* any time (an event that arrives while the flag is set is not processed
\* before the running handler has finished).
C34_OneHandlerAtATime ==
  \A e, f \in EvIds : (OpenSeaExecuting(e) /\ OpenSeaExecuting(f)) => e = f

(***************************************************************************)
(* OpenSeaWalletConnectManager of src/src/utils/walletconnect-opensea-     *)
(* fixed.ts: initialize, connectWithUri, the listeners, onSessionProposal  *)
(* and onSessionRequest.  A response is recorded with the id it carries    *)
(* and its error code (0 for a result).                                    *)
(***************************************************************************)
ServerError == 0 - 32000
ResultResponse(e) == [id |-> e, code |-> 0]
ErrorResponse(e) == [id |-> e, code |-> ServerError]

\* initialize: Web3Wallet.init and setupEventListeners
FixedInitialize ==
  /\ ~openSeaFixed.web3wallet
  /\ openSeaFixed' = [openSeaFixed EXCEPT !.web3wallet = TRUE]
  /\ UNCHANGED besidesOpenSeaFixed

\* connectWithUri after initialize: this.wallet = new ethers.Wallet(...)
FixedWalletCreated ==
  /\ openSeaFixed.web3wallet
  /\ ~openSeaFixed.wallet
  /\ openSeaFixed' = [openSeaFixed EXCEPT !.wallet = TRUE]
  /\ UNCHANGED besidesOpenSeaFixed

\* the catch block of onSessionRequest: its second statement reads
\* `request.method`, but `request` is declared by a const inside the try
\* block and is not in scope here, so the statement throws a ReferenceError
\* before respondSessionRequest is reached and the handler's promise rejects
FixedRequestCatch(m, e) == [m EXCEPT !.runs[e].pc = "rejected"]

\* the session_proposal listener: onSessionProposal up to its first await
FixedProposalEvent(e) ==
  /\ openSeaFixed.web3wallet
  /\ openSeaFixed.runs[e].kind = "none"
  /\ openSeaFixed' =
       IF ~openSeaFixed.wallet
       THEN [openSeaFixed EXCEPT
               !.runs[e] = [kind |-> "proposal", method |-> "-",
                            pc |-> "awaitReject", dispatchThrew |-> FALSE],
               !.rejectCalls[e] = @ + 1]
       ELSE [openSeaFixed EXCEPT
               !.runs[e] = [kind |-> "proposal", method |-> "-",
                            pc |-> "awaitApprove", dispatchThrew |-> FALSE],
               !.approveCalls[e] = @ + 1]
  /\ UNCHANGED besidesOpenSeaFixed

\* web3wallet.approveSession settles
FixedApproveResolve(e, ok) ==
  /\ openSeaFixed.runs[e].pc = "awaitApprove"
  /\ openSeaFixed' =
       IF ok
       THEN [openSeaFixed EXCEPT !.runs[e].pc = "done",
                                 !.sessions = @ \cup {e}]
       ELSE [openSeaFixed EXCEPT !.runs[e].pc = "awaitReject",
                                 !.rejectCalls[e] = @ + 1]
  /\ UNCHANGED besidesOpenSeaFixed

\* web3wallet.rejectSession settles; a failure is logged only
FixedRejectResolve(e) ==
  /\ openSeaFixed.runs[e].pc = "awaitReject"
  /\ openSeaFixed' = [openSeaFixed EXCEPT !.runs[e].pc = "done"]
  /\ UNCHANGED besidesOpenSeaFixed

\* the session_request listener: onSessionRequest up to its first await
FixedRequestEvent(e, method) ==
  /\ openSeaFixed.web3wallet
  /\ openSeaFixed.runs[e].kind = "none"
  /\ LET run(pc, threw) == [kind |-> "request", method |-> method,
                            pc |-> pc, dispatchThrew |-> threw] IN
     openSeaFixed' =
       IF ~openSeaFixed.wallet \/ method \notin OpenSeaSupported
       THEN FixedRequestCatch(
              [openSeaFixed EXCEPT !.runs[e] = run("catch", TRUE)], e)
       ELSE IF method \in OpenSeaSigning
            THEN [openSeaFixed EXCEPT !.runs[e] = run("awaitSign", FALSE)]
            ELSE [openSeaFixed EXCEPT
                    !.runs[e] = run("awaitRespond", FALSE),
                    !.respondCalls[e] = Append(@, ResultResponse(e))]
  /\ UNCHANGED besidesOpenSeaFixed

\* wallet.signMessage settles
FixedSignResolve(e, ok) ==
  /\ openSeaFixed.runs[e].pc = "awaitSign"
  /\ openSeaFixed' =
       IF ok
       THEN [openSeaFixed EXCEPT
               !.runs[e].pc = "awaitRespond",
               !.respondCalls[e] = Append(@, ResultResponse(e))]
       ELSE FixedRequestCatch(
              [openSeaFixed EXCEPT !.runs[e].dispatchThrew = TRUE], e)
  /\ UNCHANGED besidesOpenSeaFixed

\* web3wallet.respondSessionRequest with the result settles
FixedRespondResolve(e, ok) ==
  /\ openSeaFixed.runs[e].pc = "awaitRespond"
  /\ openSeaFixed' =
       IF ok
       THEN [openSeaFixed EXCEPT !.runs[e].pc = "done"]
       ELSE FixedRequestCatch(openSeaFixed, e)
  /\ UNCHANGED besidesOpenSeaFixed

NextOpenSeaFixed ==
  \/ FixedInitialize
  \/ FixedWalletCreated
  \/ \E e \in EvIds : FixedProposalEvent(e)
  \/ \E e \in EvIds, ok \in BOOLEAN : FixedApproveResolve(e, ok)
  \/ \E e \in EvIds : FixedRejectResolve(e)
  \/ \E e \in EvIds, m \in OpenSeaRequestMethods : FixedRequestEvent(e, m)
  \/ \E e \in EvIds, ok \in BOOLEAN : FixedSignResolve(e, ok)
  \/ \E e \in EvIds, ok \in BOOLEAN : FixedRespondResolve(e, ok)

SpecOpenSeaFixed == Init /\ [][NextOpenSeaFixed]_vars

\* C35: in onSessionRequest of walletconnect-opensea-fixed.ts every request
\* whose dispatch throws (unsupported method, signing failure, wallet not
\* initialised) is answered with an error response that carries the request
\* id and code -32000, and the handler completes normally.
C35_DispatchFailureAnswered ==
  \A e \in EvIds :
    openSeaFixed.runs[e].dispatchThrew =>
      /\ openSeaFixed.runs[e].pc # "rejected"
      /\ \E i \in DOMAIN openSeaFixed.respondCalls[e] :
           openSeaFixed.respondCalls[e][i] = ErrorResponse(e)

\* C36: a session proposal is approved on the transport only after an
\* explicit user decision: the step that receives a session_proposal event
\* does not itself call the transport's approval primitive, and no Session
\* is created for a proposal the user has not decided on (the class has no
\* operation through which a decision could arrive).
C36_ProposalEventDoesNotApprove ==
  [][\A e \in EvIds :
       (openSeaFixed.runs[e].kind = "none" /\
        openSeaFixed'.runs[e].kind = "proposal")
       => openSeaFixed'.approveCalls[e] = openSeaFixed.approveCalls[e]]_vars

\* C36, second half: no Session exists for a proposal, since no user decision
\* can have been taken.
C36_NoSessionWithoutDecision == openSeaFixed.sessions = {}

(***************************************************************************)
(* disconnectAll (walletconnect-real.ts, lines 1302-1312): a for-of loop   *)
(* over the live key iterator of this.sessions that awaits                 *)
(* disconnectSession(topic) for every key the iterator produces.  The      *)
(* iterator produces the keys that are in the map when it is advanced and  *)
(* that it has not produced before; 0 stands for its end.                  *)
(***************************************************************************)
besidesDiscAll == <<openSea, openSeaFixed, worker, page>>
besidesWorker == <<coreVars, keyStoreVars, openSea, openSeaFixed, discAll, page>>
besidesPage == <<coreVars, keyStoreVars, openSea, openSeaFixed, discAll, worker>>

IteratorNext(visited, t) ==
  \/ t = 0 /\ sessions' \ visited = {}
  \/ t \in sessions' \ visited

\* the variant of the loop that goes on after a failed disconnectSession
DisconnectAllSwallowing(da) == [da EXCEPT !.pc = "resume"]

\* a disconnectSession call inside the loop threw: the catch block of
\* disconnectAll logs and rethrows
DisconnectAllThrew(da) == [da EXCEPT !.pc = "threw"]

\* the loop from the advance of the iterator to the await inside
\* disconnectSession(t), or to the normal return of disconnectAll
DisconnectAllLoop(da, t) ==
  /\ IteratorNext(da.visited, t)
  /\ IF t = 0
       THEN /\ discAll' = [da EXCEPT !.pc = "returned", !.topic = 0]
            /\ UNCHANGED disconnectCalls
       ELSE IF signClient
         THEN /\ discAll' = [da EXCEPT !.pc = "awaitDisconnect",
                                       !.topic = t,
                                       !.visited = @ \cup {t},
                                       !.calls[t] = @ + 1]
              /\ disconnectCalls' = [disconnectCalls EXCEPT ![t] = @ + 1]
         ELSE /\ discAll' = [da EXCEPT !.pc = "resume", !.topic = t,
                                       !.visited = @ \cup {t}]
              /\ UNCHANGED disconnectCalls

\* disconnectAll() is called
DisconnectAllCall(t) ==
  /\ discAll.pc = "none"
  /\ UNCHANGED <<sessions, clientSessions, closed>>
  /\ DisconnectAllLoop([discAll EXCEPT !.atCall = sessions,
                                       !.before = disconnectCalls], t)
  /\ UNCHANGED <<disc, setupVars, reqVars, propVars, keyStoreVars,
                 consoleLog, besidesDiscAll>>

\* the disconnectSession awaited by the loop settles: its
\* signClient.disconnect succeeded or failed, or it had made no call
DisconnectAllResolve(ok, t) ==
  /\ discAll.pc \in {"awaitDisconnect", "resume"}
  /\ discAll.pc = "resume" => ok
  /\ IF discAll.pc = "resume"
       THEN /\ UNCHANGED <<clientSessions, sessions, closed>>
            /\ DisconnectAllLoop(discAll, t)
       ELSE IF ok
       THEN /\ clientSessions' = clientSessions \ {discAll.topic}
            /\ sessions' = sessions \ {discAll.topic}
            /\ closed' = IF discAll.topic \in sessions
                           THEN closed \cup {discAll.topic} ELSE closed
            /\ DisconnectAllLoop(discAll, t)
       ELSE /\ t = 0
            /\ discAll' = DisconnectAllThrew(discAll)
            /\ UNCHANGED <<clientSessions, sessions, closed, disconnectCalls>>
  /\ UNCHANGED <<disc, setupVars, reqVars, propVars, keyStoreVars,
                 consoleLog, besidesDiscAll>>

NextDisconnectAll ==
  \/ wallet = NoWallet /\ ConnectWithUri("k1", 1)
  \/ \E ok, g \in BOOLEAN : ConnectResume(ok, g)
  \/ \E d \in DiscIds, t \in Topics : DisconnectSession(d, t)
  \/ \E d \in DiscIds, ok \in BOOLEAN : DisconnectResolve(d, ok)
  \/ \E t \in Topics : SessionDeleteEvent(t)
  \/ \E t \in Topics \cup {0} : DisconnectAllCall(t)
  \/ \E ok \in BOOLEAN, t \in Topics \cup {0} : DisconnectAllResolve(ok, t)

SpecDisconnectAll == Init /\ [][NextDisconnectAll]_vars

\* signClient.disconnect calls for topic t since disconnectAll was called
DisconnectsSinceCall(t) == disconnectCalls[t] - discAll.before[t]

\* C37: when disconnectAll returns normally, no topic that was in the
\* sessions map when it was called is still in the map, and
\* signClient.disconnect was called exactly once for each of those topics.
C37_AllDisconnectedExactlyOnce ==
  discAll.pc = "returned" =>
    \A t \in discAll.atCall :
      t \notin sessions /\ DisconnectsSinceCall(t) = 1

\* C37 as the code has it: when disconnectAll returns normally, no topic
\* that was in the sessions map when it was called is still in the map, and
\* disconnectAll itself has called signClient.disconnect at most once for
\* each of those topics: exactly once for every topic its loop reached, and
\* not at all for a topic that an event or another call removed from the map
\* before the loop reached it.  Other calls may disconnect a topic as well.
C37_AllGoneEachReachedOnce ==
  discAll.pc = "returned" =>
    \A t \in discAll.atCall :
      /\ t \notin sessions
      /\ discAll.calls[t] = IF t \in discAll.visited THEN 1 ELSE 0

\* C37 witness: disconnectAll has returned normally after disconnecting a
\* topic that was in the map when it was called
C37_Witness ==
  /\ discAll.pc = "returned"
  /\ \E t \in discAll.atCall : discAll.calls[t] = 1

(***************************************************************************)
(* The vanity worker (src/public/vanity-worker.js).  An address is `0x`    *)
(* followed by AddrLen hex digits; digits and pattern characters are drawn *)
(* from a reduced alphabet.  The handler of a start message runs to its    *)
(* end before the next message is handled; it is cut at the top of the     *)
(* while loop.                                                             *)
(***************************************************************************)
AddrLen == 2
MaxAttemptsLimit == 1000
progressInterval == 1000

AddrDigits == {"0", "a"}
PatternChars == {"a", "A"}
Addresses == {<<"0", "x">> \o b : b \in [1..AddrLen -> AddrDigits]}
Patterns == SeqsUpTo(PatternChars, AddrLen)
PatternTypes == {"prefix", "suffix", "contains", "exact"}
StartAttempts == {0, 1, MaxAttemptsLimit}

\* String.prototype.toLowerCase
ToLowerChar(c) == IF c = "A" THEN "a" ELSE c
StringToLowerCase(str) == [i \in DOMAIN str |-> ToLowerChar(str[i])]

\* String.prototype.startsWith / endsWith / includes
StartsWith(str, p) ==
  Len(p) <= Len(str) /\ SubSeq(str, 1, Len(p)) = p
EndsWith(str, p) ==
  Len(p) <= Len(str) /\ SubSeq(str, Len(str) - Len(p) + 1, Len(str)) = p
StringIncludes(str, p) ==
  \E i \in 0..(Len(str) - Len(p)) : SubSeq(str, i + 1, i + Len(p)) = p

\* checkPattern(address, pattern, type), lines 12-26
checkPattern(address, pattern, type) ==
  LET addr_lower == StringToLowerCase(address)
      pattern_lower == StringToLowerCase(pattern) IN
  CASE type = "prefix" -> StartsWith(addr_lower, <<"0", "x">> \o pattern_lower)
    [] type = "suffix" -> EndsWith(addr_lower, pattern_lower)
    [] type = "contains" -> StringIncludes(addr_lower, pattern_lower)
    [] OTHER -> FALSE

\* the loop condition with the bound included
LoopGuardInclusive(attempts, maxAttempts) == attempts <= maxAttempts

\* the condition of the while loop, line 76
LoopGuard(attempts, maxAttempts) == attempts < maxAttempts

\* self.postMessage({type, data}); attempts is data.attempts (0 in an error
\* message, which carries a text only)
Message(type, attempts) == [type |-> type, attempts |-> attempts]

\* self.onmessage up to the first test of the loop condition; every message
\* has its own attempts counter, so one message is followed
WorkerStart(pattern, type, maxAttempts, crypto) ==
  /\ worker.pc = "idle"
  /\ worker' = [pc |-> "running", pattern |-> pattern, patternType |-> type,
                maxAttempts |-> maxAttempts, crypto |-> crypto,
                attempts |-> 0, posted |-> <<>>, firstMatch |-> 0]
  /\ UNCHANGED besidesWorker

\* one iteration of the while loop; address is what getRandomValues
\* produced.  Without a crypto object line 82 throws and the catch block
\* posts the error.
WorkerAttempt(address) ==
  /\ worker.pc = "running"
  /\ LoopGuard(worker.attempts, worker.maxAttempts)
  /\ LET attempts == worker.attempts + 1
         progress ==
           IF attempts % progressInterval = 0
             THEN Append(worker.posted, Message("progress", attempts))
             ELSE worker.posted
         matches == checkPattern(address, worker.pattern, worker.patternType)
     IN
     worker' =
       IF ~worker.crypto
       THEN [worker EXCEPT !.attempts = attempts, !.pc = "done",
                           !.posted = Append(@, Message("error", 0))]
       ELSE IF matches
       THEN [worker EXCEPT !.attempts = attempts, !.pc = "done",
                           !.firstMatch = attempts,
                           !.posted = Append(progress,
                                        Message("found_pattern", attempts))]
       ELSE [worker EXCEPT !.attempts = attempts, !.posted = progress]
  /\ UNCHANGED besidesWorker

\* the loop condition fails: the `Max attempts ... reached` error is posted
WorkerExhausted ==
  /\ worker.pc = "running"
  /\ ~LoopGuard(worker.attempts, worker.maxAttempts)
  /\ worker' = [worker EXCEPT !.pc = "done",
                              !.posted = Append(@, Message("error", 0))]
  /\ UNCHANGED besidesWorker

NextWorker ==
  \/ \E p \in Patterns, ty \in PatternTypes, m \in StartAttempts,
        c \in BOOLEAN : WorkerStart(p, ty, m, c)
  \/ \E a \in Addresses : WorkerAttempt(a)
  \/ WorkerExhausted

SpecWorker == Init /\ [][NextWorker]_vars

TerminalTypes == {"found_pattern", "error"}
TerminalMessages ==
  {i \in DOMAIN worker.posted : worker.posted[i].type \in TerminalTypes}

\* C38: for every start message with a finite maxAttempts the findPattern
\* loop stops after at most maxAttempts attempts and posts exactly one
\* terminal message, found_pattern at the first matching address and error
\* otherwise; progress messages are posted only at attempt counts that are
\* multiples of 1000 and never after the terminal message.
C38_BoundedLoopOneTerminalMessage ==
  /\ worker.attempts <= worker.maxAttempts
  /\ worker.pc = "running" => TerminalMessages = {}
  /\ worker.pc = "done" => TerminalMessages = {Len(worker.posted)}
  /\ \A i \in DOMAIN worker.posted :
       LET msg == worker.posted[i] IN
         /\ msg.type = "progress" =>
              msg.attempts > 0 /\ msg.attempts % progressInterval = 0
         /\ msg.type = "found_pattern" =>
              worker.firstMatch > 0 /\ msg.attempts = worker.firstMatch
         /\ msg.type = "error" => worker.firstMatch = 0

\* C38 witness: a pattern was found after a progress message had been
\* posted, and the run is over
C38_Witness ==
  /\ worker.pc = "done"
  /\ Len(worker.posted) >= 2
  /\ worker.posted[1].type = "progress"
  /\ worker.posted[Len(worker.posted)].type = "found_pattern"

(***************************************************************************)
(* The vanity page (src/src/app/vanity/page.tsx): generateVanityWallet,    *)
(* generateVanityWalletSync with its generateAttempt closure, and          *)
(* stopGeneration.  Every generation has its own attempts counter and      *)
(* re-arms itself with setTimeout(generateAttempt, 0); the bound of        *)
(* 1000000 attempts is scaled down to MaxPageAttempts.  The Generate       *)
(* button is rendered while isGenerating is false and the Stop button      *)
(* while it is true.                                                       *)
(***************************************************************************)
MaxPageAttempts == 3
AttemptOutcomes == {"miss", "match", "throws"}

\* one call of generateAttempt of generation l, lines 250-300, on the page
\* state pg; outcome is what ethers.Wallet.createRandom and checkPattern
\* produce
generateAttempt(pg, l, outcome) ==
  IF pg.loops[l].attempts >= MaxPageAttempts
  THEN [pg EXCEPT !.error = TRUE, !.isGenerating = FALSE,
                  !.loops[l].pc = "ended", !.loops[l].outcome = "error"]
  ELSE IF outcome = "throws"
  THEN [pg EXCEPT !.error = TRUE, !.isGenerating = FALSE,
                  !.loops[l].pc = "ended", !.loops[l].outcome = "error"]
  ELSE IF outcome = "match"
  THEN [pg EXCEPT !.result = l, !.isGenerating = FALSE,
                  !.loops[l].attempts = @ + 1,
                  !.loops[l].pc = "ended", !.loops[l].outcome = "result"]
  ELSE [pg EXCEPT !.loops[l].attempts = @ + 1, !.loops[l].pc = "scheduled"]

\* the Generate button: generateVanityWallet, lines 121-161, which ends by
\* calling generateVanityWalletSync and so the first generateAttempt
GenerateVanityWallet(l, tooLong, outcome) ==
  /\ ~page.isGenerating
  /\ page.loops[l].pc = "none"
  /\ \A k \in LoopIds : k < l => page.loops[k].pc # "none"
  /\ page' =
       IF tooLong
       THEN [page EXCEPT !.error = TRUE]
       ELSE generateAttempt(
              [page EXCEPT !.error = FALSE, !.isGenerating = TRUE,
                           !.result = 0], l, outcome)
  /\ UNCHANGED besidesPage

\* the timer set by line 293 fires
GenerateAttemptTimer(l, outcome) ==
  /\ page.loops[l].pc = "scheduled"
  /\ page' = generateAttempt(page, l, outcome)
  /\ UNCHANGED besidesPage

\* the Stop button: stopGeneration, lines 307-310; workerRef.current is
\* never assigned, so terminate() is not called.  stopped marks the
\* generations that were running at the call.
StopGeneration ==
  /\ page.isGenerating
  /\ page' = [page EXCEPT
       !.isGenerating = FALSE,
       !.loops = [l \in LoopIds |->
                    IF page.loops[l].pc = "scheduled"
                      THEN [page.loops[l] EXCEPT !.stopped = TRUE]
                      ELSE page.loops[l]]]
  /\ UNCHANGED besidesPage

NextPage ==
  \/ \E l \in LoopIds, long \in BOOLEAN, o \in AttemptOutcomes :
       GenerateVanityWallet(l, long, o)
  \/ \E l \in LoopIds, o \in AttemptOutcomes : GenerateAttemptTimer(l, o)
  \/ StopGeneration

SpecPage == Init /\ [][NextPage]_vars

\* the generation loops that will run again
RunningLoops == {l \in LoopIds : page.loops[l].pc = "scheduled"}

\* C39: after stopGeneration the running generation makes no further wallet
\* attempts and sets neither a result nor an error afterwards, isGenerating
\* stays false until a new generation is started, and at most one
\* generation loop is running at any time.
C39_StopEndsTheGeneration ==
  [][/\ \A l \in LoopIds :
          page.loops[l].stopped =>
            /\ page'.loops[l].attempts = page.loops[l].attempts
            /\ page'.loops[l].outcome = page.loops[l].outcome
     /\ (~page.isGenerating /\ page'.isGenerating) =>
          \E l \in LoopIds :
            page.loops[l].pc = "none" /\ page'.loops[l].pc # "none"
     /\ Cardinality({l \in LoopIds : page'.loops[l].pc = "scheduled"}) <= 1
    ]_vars

\* C39, last part alone: at most one generation loop is running
C39_OneLoopAtATime == Cardinality(RunningLoops) <= 1

=============================================================================
